---- MODULE Spec2Model ----
(***************************************************************************)
(* Model of the vendor clients of adamhancock/mcp:                         *)
(*   NinjaOneClient        (ninjaone-client.ts)                            *)
(*   HaloPSAClient         (halopsa-client.ts)                             *)
(*   ConnectWiseRMMClient  (client.ts) and its tool handler (index.ts)     *)
(* Strings are sequences of one-character strings, so that toLowerCase,    *)
(* includes, split and RegExp.test are computed and not assumed.           *)
(* Time is counted in seconds.                                             *)
(***************************************************************************)
EXTENDS Integers, Sequences, FiniteSets, TLC

VARIABLES
  vendor,        \* which server process this is: one client instance per process
  now,           \* the wall clock (new Date() / Date.now()), in seconds
  accessToken,   \* this.accessToken
  tokenExpiry,   \* this.tokenExpiry
  pc,            \* per caller: where its operation is suspended
  tokenReqs,     \* per caller: token-endpoint requests of the current operation
  resReqs,       \* per caller: resource requests of the current operation
  reply,         \* the last operation that ended: how, and on which token response
  issued,        \* the token response that was cached last, and the instant it came
  regionEnv,     \* process.env.NINJAONE_REGION
  baseUrl,       \* NinjaOneClient.baseUrl
  doc,           \* the API description (schema.paths, schema.components)
  schemaCache,   \* ConnectWiseRMMClient.schemaCache
  call,          \* the last introspection call: its arguments
  result,        \* the last introspection call: what it returned or threw
  loads,         \* how often the API description was read or fetched so far
  qpc,           \* per caller: where its introspection query is suspended
  started,       \* the process is past its startup code
  loadFailed,    \* a read or fetch of the API description has failed
  config,        \* the credentials in process.env: "present" or "missing"
  exited,        \* process.exit(1) has been called
  sent,          \* the paths of the resource requests put on the network
  pages          \* what a client that pages through a query has collected

vars == <<vendor, now, accessToken, tokenExpiry, pc, tokenReqs, resReqs,
          reply, issued, regionEnv, baseUrl, doc, schemaCache,
          call, result, loads, qpc, started, loadFailed,
          config, exited, sent, pages>>

authVars == <<now, accessToken, tokenExpiry, pc, tokenReqs, resReqs,
              reply, issued>>
regionVars == <<regionEnv, baseUrl>>
catalogVars == <<doc, schemaCache, call, result>>
serverVars == <<config, exited, sent, pages>>
processVars == <<loads, qpc, started, loadFailed, serverVars>>

-----------------------------------------------------------------------------
(* Bounds of the model *)

NumCallers == 2
MaxTime == 90
MaxRegionLen == 2
NumBigPaths == 51
NumBigSchemas == 22
MaxCache == 1
TickLen == 30

Vendors == {"ninjaone", "halopsa", "connectwise"}
Callers == 1..NumCallers

-----------------------------------------------------------------------------
(* JavaScript values *)

Null == [tag |-> "null"]
Undefined == [tag |-> "undefined"]
InvalidDate == [tag |-> "invalid"]
Str(id) == [tag |-> "str", id |-> id]
DateAt(t) == [tag |-> "date", t |-> t]

\* Truthiness of an access token: null, undefined and "" are falsy.
Truthy(v) == v.tag = "str"

\* date > new Date(): false for an Invalid Date (NaN compares false).
After(d, t) == d.tag = "date" /\ d.t > t

-----------------------------------------------------------------------------
(* Strings *)

UpperCase == <<"A","B","C","D","E","F","G","H","I","J","K","L","M",
               "N","O","P","Q","R","S","T","U","V","W","X","Y","Z">>
LowerCase == <<"a","b","c","d","e","f","g","h","i","j","k","l","m",
               "n","o","p","q","r","s","t","u","v","w","x","y","z">>

\* the case mappings of the ASCII letters
LowerOf == [c \in {UpperCase[i] : i \in 1..26} |->
              LowerCase[CHOOSE i \in 1..26 : UpperCase[i] = c]]
UpperOf == [c \in {LowerCase[i] : i \in 1..26} |->
              UpperCase[CHOOSE i \in 1..26 : LowerCase[i] = c]]

ToLowerChar(c) == IF c \in DOMAIN LowerOf THEN LowerOf[c] ELSE c

ToUpperChar(c) == IF c \in DOMAIN UpperOf THEN UpperOf[c] ELSE c

ToLowerCase(s) == [i \in 1..Len(s) |-> ToLowerChar(s[i])]
ToUpperCase(s) == [i \in 1..Len(s) |-> ToUpperChar(s[i])]

\* String.prototype.includes
Includes(s, sub) ==
  \E i \in 0..(Len(s) - Len(sub)) : \A j \in 1..Len(sub) : s[i + j] = sub[j]

-----------------------------------------------------------------------------
(* CredentialManager: the token cache of the three clients *)

Num(n) == [tag |-> "num", n |-> n]

\* expires_in values a token endpoint may send (seconds), or none at all
ExpiresIns == {Num(60), Num(120), Undefined}

\* NinjaOne: expiryTime.setSeconds(getSeconds() + expires_in - 60)
\* HaloPSA:  (expires_in - 60) * 1000 added to Date.now()
\* ConnectWise: expires_in * 1000 added to Date.now(), nothing subtracted
SafetyMargin(v) == IF v = "connectwise" THEN 0 ELSE 60

\* The Date stored in tokenExpiry; arithmetic on undefined gives NaN, an Invalid Date.
ExpiryOf(v, t, e) ==
  IF e.tag = "num" THEN DateAt(t + e.n - SafetyMargin(v)) ELSE InvalidDate

\* this.accessToken && this.tokenExpiry && this.tokenExpiry > new Date()
TokenValidNever(tok, exp, t) == FALSE

TokenValid(tok, exp, t) == Truthy(tok) /\ exp # Null /\ After(exp, t)

\* What the token endpoint may answer to caller p's request: a network error
\* (fetch rejects), a non-2xx status, a body that is not JSON (response.json()
\* rejects), or a JSON body with or without access_token and expires_in.
TokenResponses(p) ==
  {[kind |-> "network_error"], [kind |-> "http_error"], [kind |-> "bad_json"]}
  \cup {[kind |-> "ok", access_token |-> a, expires_in |-> e] :
          a \in {Str(p), Undefined}, e \in ExpiresIns}

\* What a resource endpoint may answer.
ResourceResponses ==
  {[kind |-> "network_error"]}
  \cup {[kind |-> "http", ok |-> o, jsonType |-> j, body |-> b] :
          o \in BOOLEAN, j \in BOOLEAN, b \in {"json", "empty", "text"}}

NoAuth == [kind |-> "none"]
NoReply == [kind |-> "none"]
Reply(o, r) == [kind |-> "reply", outcome |-> o, auth |-> r]

\* How an operation ends once the resource endpoint has answered.
ResourceOutcome(v, r) ==
  IF r.kind = "network_error" THEN "transport_error"
  ELSE IF ~r.ok THEN "api_error"
  ELSE CASE v = "ninjaone" ->
              \* return response.json()
              IF r.body = "json" THEN "json" ELSE "parse_error"
         [] v = "connectwise" ->
              \* responseText ? JSON.parse(responseText) : null
              IF r.body = "empty" THEN "null"
              ELSE IF r.body = "json" THEN "json" ELSE "parse_error"
         [] v = "halopsa" ->
              \* content-type includes application/json ? json() : text()
              IF r.jsonType
              THEN (IF r.body = "json" THEN "json" ELSE "parse_error")
              ELSE "text"

\* The catch block of authenticate(): the error is thrown on to the caller,
\* which ends the operation.
AuthFailRetry(p, r) ==
  /\ tokenReqs[p] < 3
  /\ tokenReqs' = [tokenReqs EXCEPT ![p] = @ + 1]
  /\ UNCHANGED <<pc, reply, resReqs>>

AuthFail(p, r) ==
  /\ pc' = [pc EXCEPT ![p] = "idle"]
  /\ reply' = Reply("auth_error", r)
  /\ tokenReqs' = [tokenReqs EXCEPT ![p] = 0]
  /\ UNCHANGED resReqs

\* await fetch(url, {... Authorization: `Bearer ${this.accessToken}` ...})
Dispatch(p) ==
  /\ pc' = [pc EXCEPT ![p] = "resource"]
  /\ resReqs' = [resReqs EXCEPT ![p] = @ + 1]

\* request() / makeRequest() / makeApiCall() up to its first suspension:
\* the validity check, then either the resource fetch or the token fetch.
StartOperation(p) ==
  /\ pc[p] = "idle"
  /\ IF TokenValid(accessToken, tokenExpiry, now)
     THEN /\ Dispatch(p)
          /\ UNCHANGED tokenReqs
     ELSE /\ tokenReqs' = [tokenReqs EXCEPT ![p] = @ + 1]
          /\ pc' = [pc EXCEPT ![p] = "token"]
          /\ UNCHANGED resReqs
  /\ UNCHANGED <<now, accessToken, tokenExpiry, issued, reply>>

\* a variant that forgets the cached token when the exchange fails
TokenResponseClearing(p, r) ==
  /\ pc[p] = "token"
  /\ IF r.kind = "ok"
     THEN /\ accessToken' = r.access_token
          /\ tokenExpiry' = ExpiryOf(vendor, now, r.expires_in)
          /\ issued' = [at |-> now, access_token |-> r.access_token, expires_in |-> r.expires_in]
          /\ Dispatch(p)
          /\ UNCHANGED <<tokenReqs, reply>>
     ELSE /\ AuthFail(p, r)
          /\ accessToken' = Null
          /\ tokenExpiry' = Null
          /\ UNCHANGED issued
  /\ UNCHANGED now

\* a variant that stores the token of the answer and keeps the old expiry
TokenResponseSplit(p, r) ==
  /\ pc[p] = "token"
  /\ IF r.kind = "ok"
     THEN /\ accessToken' = r.access_token
          /\ issued' = [at |-> now, access_token |-> r.access_token, expires_in |-> r.expires_in]
          /\ Dispatch(p)
          /\ UNCHANGED <<tokenExpiry, tokenReqs, reply>>
     ELSE /\ AuthFail(p, r)
          /\ UNCHANGED <<accessToken, tokenExpiry, issued>>
  /\ UNCHANGED now

\* authenticate() resumes with the token endpoint's answer r; on success the
\* caller goes on to the resource fetch in the same turn.
TokenResponse(p, r) ==
  /\ pc[p] = "token"
  /\ IF r.kind = "ok"
     THEN /\ accessToken' = r.access_token
          /\ tokenExpiry' = ExpiryOf(vendor, now, r.expires_in)
          /\ issued' = [at |-> now, access_token |-> r.access_token, expires_in |-> r.expires_in]
          /\ Dispatch(p)
          /\ UNCHANGED <<tokenReqs, reply>>
     ELSE /\ AuthFail(p, r)
          /\ UNCHANGED <<accessToken, tokenExpiry, issued>>
  /\ UNCHANGED now

\* The operation resumes with the resource endpoint's answer r and ends.
ResourceResponse(p, r) ==
  /\ pc[p] = "resource"
  /\ pc' = [pc EXCEPT ![p] = "idle"]
  /\ reply' = Reply(ResourceOutcome(vendor, r), NoAuth)
  /\ tokenReqs' = [tokenReqs EXCEPT ![p] = 0]
  /\ resReqs' = [resReqs EXCEPT ![p] = 0]
  /\ UNCHANGED <<now, accessToken, tokenExpiry, issued>>

\* Time passes.
Tick ==
  /\ now + TickLen <= MaxTime
  /\ now' = now + TickLen
  /\ UNCHANGED <<accessToken, tokenExpiry, pc, tokenReqs, resReqs, reply, issued>>

InitAuth ==
  /\ now = 0
  /\ accessToken = Null
  /\ tokenExpiry = Null
  /\ pc = [p \in Callers |-> "idle"]
  /\ tokenReqs = [p \in Callers |-> 0]
  /\ resReqs = [p \in Callers |-> 0]
  /\ reply = NoReply
  /\ issued = Null

-----------------------------------------------------------------------------
(* The parts of the state a specification does not exercise stay at rest. *)

NoCall == [op |-> "none"]
Idle == [at |-> "idle"]
NoResult == [kind |-> "none"]
EmptyDoc == [paths |-> <<>>, schemas |-> <<>>]

RegionAtRest == regionEnv = Undefined /\ baseUrl = Undefined
ServerAtRest ==
  /\ config = "present"
  /\ exited = FALSE
  /\ sent = {}
  /\ pages = <<>>
ProcessAtRest ==
  /\ ServerAtRest
  /\ loads = 0
  /\ qpc = [p \in Callers |-> Idle]
  /\ started = TRUE
  /\ loadFailed = FALSE
CatalogAtRest ==
  /\ doc = EmptyDoc
  /\ schemaCache = <<>>
  /\ call = NoCall
  /\ result = NoResult

-----------------------------------------------------------------------------
(* Token lifecycle and request dispatch, with NumCallers concurrent callers *)

Init ==
  /\ vendor \in Vendors
  /\ InitAuth
  /\ ProcessAtRest
  /\ RegionAtRest
  /\ CatalogAtRest

Next ==
  \/ \E p \in Callers : StartOperation(p) /\ UNCHANGED <<vendor, regionVars, catalogVars, processVars>>
  \/ \E p \in Callers :
       /\ pc[p] = "token"
       /\ \E r \in TokenResponses(p) : TokenResponse(p, r)
       /\ UNCHANGED <<vendor, regionVars, catalogVars, processVars>>
  \/ \E p \in Callers : \E r \in ResourceResponses :
       ResourceResponse(p, r) /\ UNCHANGED <<vendor, regionVars, catalogVars, processVars>>
  \/ Tick /\ UNCHANGED <<vendor, regionVars, catalogVars, processVars>>

Spec == Init /\ [][Next]_vars


-----------------------------------------------------------------------------
(* Properties of the token lifecycle *)

\* A usable token is cached and its expiry lies ahead.
TokenFresh ==
  /\ accessToken.tag = "str"
  /\ tokenExpiry.tag = "date"
  /\ now < tokenExpiry.t

AllIdle == \A q \in Callers : pc[q] = "idle"

\* C1 - Token reuse: an operation issued while no other is running and while
\* now < expiresAt of the cached token sends nothing to the token endpoint;
\* only the operation that found no fresh token fetched one.
C1_TokenReuse ==
  [][(TokenFresh /\ AllIdle) => \A p \in Callers : pc'[p] # "token"]_vars

\* An operation went straight to its resource request on the cached token.
C1_Witness ==
  /\ TokenFresh
  /\ \E p \in Callers :
       /\ pc[p] = "resource" /\ tokenReqs[p] = 0
       /\ \A q \in Callers \ {p} : pc[q] = "idle"

\* C2 - Single-flight refresh: callers that find no valid token share one
\* token exchange, so at most one exchange is in flight at any time.
C2_SingleFlight == Cardinality({p \in Callers : pc[p] = "token"}) <= 1

\* C3 - Expiry boundary: a token cached from a response with expires_in = E
\* received at issuedAt is treated as valid exactly at the instants strictly
\* before issuedAt + E - 60s, in every vendor client.
C3_ExpiryBoundary ==
  (issued # Null /\ issued.expires_in.tag = "num" /\ Truthy(accessToken))
    => (TokenValid(accessToken, tokenExpiry, now)
          <=> now < issued.at + issued.expires_in.n - 60)

\* C4 - Ordering guarantee: at the moment authentication returns successfully
\* (the caller moves on to its resource request) the cached token is present
\* and not expired, whatever expires_in the token endpoint sent.
C4_ValidOnReturn ==
  [][\A p \in Callers :
       (pc[p] # "resource" /\ pc'[p] = "resource")
         => /\ Truthy(accessToken')
            /\ tokenExpiry'.tag = "date"
            /\ now' < tokenExpiry'.t]_vars

\* C5 - A token exchange that ends in a non-2xx answer, a network error or a
\* malformed body (not JSON, or JSON without access_token or expires_in) ends
\* the operation with an authentication error; authentication never returns
\* successfully with an unusable token cached.
C5_FailedExchangeFails ==
  [][\A p \in Callers :
       (pc[p] = "token" /\ pc'[p] # "token")
         => \/ /\ pc'[p] = "idle"
               /\ reply'.kind = "reply"
               /\ reply'.outcome = "auth_error"
               /\ reply'.auth.kind \in {"http_error", "network_error", "bad_json"}
            \/ /\ pc'[p] = "resource"
               /\ accessToken'.tag = "str"
               /\ tokenExpiry'.tag = "date"]_vars

\* C6 - No automatic retry: an operation sends at most one request to the
\* token endpoint and at most one resource request, whatever their outcomes.
C6_NoRetry ==
  \A p \in Callers : tokenReqs[p] <= 1 /\ resReqs[p] <= 1

\* One operation ended on a failed token exchange while another has sent one
\* token request and one resource request.
C6_Witness ==
  /\ reply.kind = "reply" /\ reply.outcome = "auth_error"
  /\ \E p \in Callers : tokenReqs[p] = 1 /\ resReqs[p] = 1


-----------------------------------------------------------------------------
(* NinjaOne: region to base URL *)

Text(chars) == [tag |-> "str", chars |-> chars]
Url(u) == [tag |-> "str", url |-> u]

\* The properties every object literal inherits from Object.prototype; each is
\* a function or an object, hence truthy.
ObjectPrototypeKeys ==
  { <<"c","o","n","s","t","r","u","c","t","o","r">>,
    <<"_","_","p","r","o","t","o","_","_">>,
    <<"t","o","S","t","r","i","n","g">>,
    <<"v","a","l","u","e","O","f">>,
    <<"h","a","s","O","w","n","P","r","o","p","e","r","t","y">> }

Inherited(key) == [tag |-> "inherited", key |-> key]

\* regionMap[key]: an own property, else an inherited one, else undefined
RegionMapGet(key) ==
  CASE key = <<"e","u">> -> Url("https://eu.ninjarmm.com")
    [] key = <<"u","s">> -> Url("https://api.ninjarmm.com")
    [] key = <<"c","a">> -> Url("https://ca.ninjarmm.com")
    [] key = <<"o","c">> -> Url("https://oc.ninjarmm.com")
    [] key = <<"a","p","p">> -> Url("https://app.ninjarmm.com")
    [] OTHER -> IF key \in ObjectPrototypeKeys THEN Inherited(key) ELSE Undefined

\* return regionMap[region.toLowerCase()] || regionMap['us']
GetRegionUrl(region) ==
  IF RegionMapGet(ToLowerCase(region)) # Undefined
  THEN RegionMapGet(ToLowerCase(region))
  ELSE RegionMapGet(<<"u","s">>)

\* const region = process.env.NINJAONE_REGION || 'us'
RegionOfEnv(env) ==
  IF env = Undefined \/ env = Text(<<>>) THEN <<"u","s">> ELSE env.chars

\* The README's table of supported regions.
SupportedRegionUrl(code) ==
  CASE code = <<"u","s">> -> Url("https://api.ninjarmm.com")
    [] code = <<"e","u">> -> Url("https://eu.ninjarmm.com")
    [] code = <<"c","a">> -> Url("https://ca.ninjarmm.com")
    [] code = <<"o","c">> -> Url("https://oc.ninjarmm.com")
    [] code = <<"a","p","p">> -> Url("https://app.ninjarmm.com")
    [] OTHER -> Undefined

\* Strings of at most n characters over an alphabet
RECURSIVE StringsUpTo(_, _)
StringsUpTo(alphabet, n) ==
  IF n = 0 THEN {<<>>}
  ELSE LET shorter == StringsUpTo(alphabet, n - 1)
       IN shorter \cup {Append(w, c) : w \in shorter, c \in alphabet}

RegionEnvs ==
  {Undefined}
  \cup {Text(w) : w \in StringsUpTo({"e", "u", "s", "E", "U", "S"}, MaxRegionLen)}
  \cup {Text(w) : w \in
         { <<"c","a">>, <<"C","a">>, <<"o","c">>, <<"O","C">>,
           <<"a","p","p">>, <<"A","p","p">>, <<"A","P","P">>,
           <<"x","x">>, <<"u","k">>, <<"e","u","-","w","e","s","t">>,
           <<"c","o","n","s","t","r","u","c","t","o","r">>,
           <<"C","o","n","s","t","r","u","c","t","o","r">>,
           <<"_","_","p","r","o","t","o","_","_">>,
           <<"t","o","S","t","r","i","n","g">> }}

\* initializeClient() on the first tool call: new NinjaOneClient({... region ...})
InitializeClient ==
  /\ vendor = "ninjaone"
  /\ baseUrl = Undefined
  /\ baseUrl' = GetRegionUrl(RegionOfEnv(regionEnv))
  /\ UNCHANGED regionEnv

InitR ==
  /\ vendor = "ninjaone"
  /\ regionEnv \in RegionEnvs
  /\ baseUrl = Undefined
  /\ InitAuth
  /\ ProcessAtRest
  /\ CatalogAtRest

NextR == InitializeClient /\ UNCHANGED <<vendor, authVars, catalogVars, processVars>>

SpecRegion == InitR /\ [][NextR]_vars

\* C7 - Region fallback: every recognized region code, in any letter case,
\* resolves to its exact mapped base URL, and every other region string,
\* whatever its value, resolves to the default US base URL.
C7_RegionFallback ==
  baseUrl # Undefined =>
    LET code == ToLowerCase(RegionOfEnv(regionEnv))
    IN baseUrl = IF SupportedRegionUrl(code) # Undefined
                 THEN SupportedRegionUrl(code)
                 ELSE Url("https://api.ninjarmm.com")


-----------------------------------------------------------------------------
(* SchemaCatalog: the API description and the queries over it *)

Bool(b) == [tag |-> "bool", b |-> b]
Obj(name) == [tag |-> "obj", name |-> name]
Arr(items) == [tag |-> "arr", items |-> items]

\* One operation of a path item: its key (the method) and the OpenAPI fields
\* the clients read. Optional strings are Text(..) or Undefined.
Op(method, operationId, summary, description, tags) ==
  [method |-> method, operationId |-> operationId, summary |-> summary,
   description |-> description, tags |-> tags,
   parameters |-> Obj("parameters"),
   requestBody |-> IF method = <<"g","e","t">> THEN Undefined ELSE Obj("requestBody"),
   responses |-> Obj("responses"),
   examples |-> Undefined,
   security |-> Undefined]

\* A document with five paths that contain "device" (one of them in capitals),
\* paths with several methods, and entries that hold one or both of the words
\* "ticket" and "create".
SmallPaths ==
  <<
    [path |-> <<"/","d","e","v","i","c","e","s">>,
     ops |-> << Op(<<"g","e","t">>, Text(<<"g","e","t","D","e","v","i","c","e","s">>), Text(<<"L","i","s","t"," ","d","e","v","i","c","e","s">>), Undefined, Arr(<<<<"D","e","v","i","c","e","s">>>>)) >>],
    [path |-> <<"/","d","e","v","i","c","e","/","{","i","d","}">>,
     ops |-> << Op(<<"g","e","t">>, Text(<<"g","e","t","D","e","v","i","c","e">>), Text(<<"G","e","t"," ","d","e","v","i","c","e">>), Text(<<"R","e","t","u","r","n","s"," ","o","n","e"," ","d","e","v","i","c","e">>), Arr(<<<<"D","e","v","i","c","e","s">>>>)),
              Op(<<"p","a","t","c","h">>, Text(<<"u","p","d","a","t","e","D","e","v","i","c","e">>), Text(<<"U","p","d","a","t","e"," ","d","e","v","i","c","e">>), Undefined, Arr(<<<<"D","e","v","i","c","e","s">>>>)) >>],
    [path |-> <<"/","D","e","v","i","c","e","/","s","w">>,
     ops |-> << Op(<<"g","e","t">>, Undefined, Undefined, Text(<<"S","o","f","t","w","a","r","e"," ","o","f"," ","a"," ","d","e","v","i","c","e">>), Undefined) >>],
    [path |-> <<"/","t","i","c","k","e","t","s">>,
     ops |-> << Op(<<"g","e","t">>, Text(<<"g","e","t","T","i","c","k","e","t","s">>), Text(<<"L","i","s","t"," ","t","i","c","k","e","t","s">>), Undefined, Arr(<<<<"T","i","c","k","e","t","s">>>>)),
              Op(<<"p","o","s","t">>, Text(<<"c","r","e","a","t","e","T","i","c","k","e","t">>), Text(<<"C","r","e","a","t","e"," ","t","i","c","k","e","t">>), Text(<<"C","r","e","a","t","e"," ","a"," ","n","e","w"," ","t","i","c","k","e","t">>), Arr(<<<<"T","i","c","k","e","t","s">>>>)) >>],
    [path |-> <<"/","o","r","g","/","d","e","v","i","c","e","s">>,
     ops |-> << Op(<<"g","e","t">>, Text(<<"g","e","t","O","r","g","D","e","v","i","c","e","s">>), Text(<<>>), Undefined, Arr(<<<<"O","r","g">>, <<"D","e","v","i","c","e","s">>>>)) >>],
    [path |-> <<"/","d","e","v","i","c","e","-","r","o","l","e","s">>,
     ops |-> << Op(<<"g","e","t">>, Undefined, Text(<<"L","i","s","t"," ","r","o","l","e","s">>), Undefined, Arr(<<>>)) >>],
    [path |-> <<"/","d","x","v">>,
     ops |-> << Op(<<"g","e","t">>, Text(<<"c","r","e","a","t","e","D","x","v">>), Undefined, Undefined, Arr(<<<<"T","i","c","k","e","t"," ","c","r","e","a","t","e">>>>)) >>]
  >>

RECURSIVE Digits(_)
Digits(n) ==
  LET d == <<"0","1","2","3","4","5","6","7","8","9">>
  IN IF n < 10 THEN <<d[n + 1]>> ELSE Append(Digits(n \div 10), d[(n % 10) + 1])

\* A document with more paths than the hard cap of 50: /dev/1 .. /dev/NumBigPaths
BigPaths ==
  [i \in 1..NumBigPaths |->
     [path |-> <<"/","d","e","v","/">> \o Digits(i),
      ops |-> <<Op(<<"g","e","t">>, Undefined,
                   Text(<<"D","e","v","i","c","e"," ">> \o Digits(i)), Undefined, Undefined)>>]]

SchemaNames(n) == [i \in 1..n |-> <<"S","c","h","e","m","a">> \o Digits(i)]

\* the component schemas of the small document, five of them named *ticket*
SmallSchemas ==
  << <<"T","i","c","k","e","t">>,
     <<"D","e","v","i","c","e">>,
     <<"T","i","c","k","e","t","T","y","p","e">>,
     <<"N","e","w","T","i","c","k","e","t">>,
     <<"U","s","e","r">>,
     <<"t","i","c","k","e","t","_","n","o","t","e">>,
     <<"S","i","t","e">>,
     <<"T","I","C","K","E","T","S">> >>

Docs ==
  { [paths |-> SmallPaths, schemas |-> SmallSchemas],
    [paths |-> BigPaths, schemas |-> SchemaNames(NumBigSchemas)] }

Min(a, b) == IF a < b THEN a ELSE b

\* the object that holds the properties `fields` of o
Pick(o, fields) == [f \in fields |-> o[f]]

\* o after o[field] = value
With(o, field, value) ==
  [f \in DOMAIN o \cup {field} |-> IF f = field THEN value ELSE o[f]]

\* A default parameter or destructuring default: it applies to undefined only.
Default(v, d) == IF v = Undefined THEN d ELSE v

\* Truthiness of an optional string
StrTruthy(v) == v # Undefined /\ v.chars # <<>>

\* methods.push(method.toUpperCase())
Methods(ops) == [j \in 1..Len(ops) |-> ToUpperCase(ops[j].method)]

\* if (!summary && methodObj?.summary) summary = methodObj.summary
FirstSummary(ops) ==
  LET having == {j \in 1..Len(ops) : StrTruthy(ops[j].summary)}
  IN IF having = {} THEN Text(<<>>)
     ELSE ops[CHOOSE j \in having : \A k \in having : j <= k].summary

\* path.toLowerCase().includes(pathPattern.toLowerCase())
PathMatches(p, pattern) == Includes(ToLowerCase(p), ToLowerCase(pattern))


-----------------------------------------------------------------------------
(* getApiEndpointDetails of NinjaOneClient and HaloPSAClient *)

\* summary mode: matchingPaths[path] = { methods, summary }
SummaryEntry(pe) ==
  [path |-> pe.path, methods |-> Methods(pe.ops), summary |-> FirstSummary(pe.ops)]

\* filteredMethodObj: HaloPSA also copies the description
FilteredOp(v, o, includeSchemas, includeExamples) ==
  Pick(o, {"method", "summary", "operationId", "tags"}
          \cup (IF v = "halopsa" THEN {"description"} ELSE {})
          \cup (IF includeSchemas
                THEN {"parameters", "requestBody", "responses"} ELSE {})
          \cup (IF includeExamples /\ o.examples # Undefined
                THEN {"examples"} ELSE {}))

FilteredEntry(v, pe, includeSchemas, includeExamples) ==
  [path |-> pe.path,
   operations |-> [j \in 1..Len(pe.ops) |->
                     FilteredOp(v, pe.ops[j], includeSchemas, includeExamples)]]

\* The loop over pathEntries: the indices of the paths taken, in document order.
\* if (matchCount >= Math.min(maxEndpoints, 50)) break
RECURSIVE ScanPaths(_, _, _, _, _)
ScanPaths(paths, i, pattern, maxEndpoints, acc) ==
  IF i > Len(paths) \/ Len(acc) >= Min(maxEndpoints, 50) THEN acc
  ELSE ScanPaths(paths, i + 1, pattern, maxEndpoints,
         IF PathMatches(paths[i].path, pattern) THEN Append(acc, i) ELSE acc)

FirstSchemasAll(d) == d.schemas

\* Object.entries(schema.components.schemas).slice(0, 20)
FirstSchemas(d) == SubSeq(d.schemas, 1, Min(Len(d.schemas), 20))

\* getApiEndpointDetails(pathPattern, summaryOnly = false, includeSchemas = true,
\*                       maxEndpoints = 10, includeExamples = false)
GetApiEndpointDetails(v, d, a) ==
  LET summaryOnly == Default(a.summaryOnly, Bool(FALSE)).b
      includeSchemas == Default(a.includeSchemas, Bool(TRUE)).b
      maxEndpoints == Default(a.maxEndpoints, Num(10)).n
      includeExamples == Default(a.includeExamples, Bool(FALSE)).b
      taken == ScanPaths(d.paths, 1, a.pathPattern, maxEndpoints, <<>>)
      matchCount == Len(taken)
      full ==
        [kind |-> "ok",
         pathPattern |-> a.pathPattern,
         matchingPaths |->
           [k \in 1..Len(taken) |->
              IF summaryOnly THEN SummaryEntry(d.paths[taken[k]])
              ELSE FilteredEntry(v, d.paths[taken[k]], includeSchemas, includeExamples)],
         matchCount |-> matchCount,
         totalMatches |->
           Cardinality({i \in 1..Len(d.paths) : PathMatches(d.paths[i].path, a.pathPattern)}),
         limited |-> (matchCount >= Min(maxEndpoints, 50)),
         components |-> FirstSchemas(d)]
  IN IF includeSchemas /\ ~summaryOnly /\ matchCount > 0
     THEN full
     ELSE Pick(full, DOMAIN full \ {"components"})

Failure(message) == [kind |-> "error", message |-> message]

\* The tool handlers of NinjaOne (getArg) and HaloPSA (pathPattern is required).
\* NinjaOne fetches the API description on every call; d is Null when the
\* fetch fails.
NinjaOneDetails(d, a) ==
  IF d = Null THEN Failure("Failed to fetch NinjaOne API endpoint details")
  ELSE GetApiEndpointDetails("ninjaone", d, a)

HaloPSADetails(d, a) ==
  IF a.pathPattern = <<>> THEN Failure("Path pattern is required")
  ELSE GetApiEndpointDetails("halopsa", d, a)


-----------------------------------------------------------------------------
(* getEndpointDetails of ConnectWiseRMMClient and its tool handler *)

\* new RegExp(pathPattern, 'i'): of the pattern language the model keeps the
\* literal characters, the wildcard "." and the unclosed group "(", which is a
\* SyntaxError. Patterns never hold ")" or another metacharacter.
RegexSyntaxError(pattern) == \E i \in 1..Len(pattern) : pattern[i] = "("

\* pattern.test(path)
RegexTest(pattern, p) ==
  \E k \in 0..(Len(p) - Len(pattern)) :
    \A i \in 1..Len(pattern) :
      \/ pattern[i] = "." /\ p[k + i] # "\n"
      \/ ToLowerChar(pattern[i]) = ToLowerChar(p[k + i])

\* endpoint.responses[code] = { description, content } for every code
ResponsesOf(responses) ==
  [tag |-> "obj", name |-> responses.name, keeps |-> {"description", "content"}]

\* The endpoint object built for one operation. No operation of Docs carries
\* an example, so endpoint.example is never set.
Endpoint(pe, o, summaryOnly, includeSchemas, includeExamples) ==
  LET full ==
        [path |-> pe.path, method |-> ToUpperCase(o.method),
         operationId |-> o.operationId, summary |-> o.summary,
         description |-> o.description, tags |-> Default(o.tags, Arr(<<>>)),
         parameters |-> o.parameters,
         requestBody |-> o.requestBody,
         responses |-> IF o.responses = Undefined THEN Undefined
                       ELSE ResponsesOf(o.responses),
         security |-> o.security]
  IN Pick(full,
       {"path", "method", "operationId", "summary", "description", "tags"}
       \cup (IF ~summaryOnly /\ o.parameters # Undefined
             THEN {"parameters"} ELSE {})
       \cup (IF ~summaryOnly /\ o.requestBody # Undefined /\ includeSchemas
             THEN {"requestBody"} ELSE {})
       \cup (IF ~summaryOnly /\ o.responses # Undefined /\ includeSchemas
             THEN {"responses"} ELSE {})
       \cup (IF ~summaryOnly /\ o.security # Undefined
             THEN {"security"} ELSE {}))

\* The inner loop, over the operations of path i: push, then
\* if (matchingEndpoints.length >= maxEndpoints) break
RECURSIVE PushOperations(_, _, _, _, _)
PushOperations(i, ops, j, maxEndpoints, acc) ==
  IF j > Len(ops) THEN acc
  ELSE LET pushed == Append(acc, <<i, j>>)
       IN IF Len(pushed) >= maxEndpoints THEN pushed
          ELSE PushOperations(i, ops, j + 1, maxEndpoints, pushed)

\* The outer loop, over the paths: the (path, operation) indices pushed. The
\* length is tested again after the operations of each matching path.
RECURSIVE ScanEndpoints(_, _, _, _, _)
ScanEndpoints(paths, i, pattern, maxEndpoints, acc) ==
  IF i > Len(paths) THEN acc
  ELSE IF ~RegexTest(pattern, paths[i].path)
  THEN ScanEndpoints(paths, i + 1, pattern, maxEndpoints, acc)
  ELSE LET pushed == PushOperations(i, paths[i].ops, 1, maxEndpoints, acc)
       IN IF Len(pushed) >= maxEndpoints THEN pushed
          ELSE ScanEndpoints(paths, i + 1, pattern, maxEndpoints, pushed)

\* JSON.stringify(options) leaves out the properties whose value is undefined
StringifyOptions(options) ==
  [k \in {f \in DOMAIN options : options[f] # Undefined} |-> options[k]]

\* cacheKey = `${pathPattern}-${JSON.stringify(options)}`
CacheKey(pathPattern, options) == <<pathPattern, StringifyOptions(options)>>

\* The handler's options: maxEndpoints is Math.min(args.maxEndpoints || 10, 50)
HandlerOptions(a) ==
  [includeSchemas |-> a.includeSchemas,
   includeExamples |-> a.includeExamples,
   summaryOnly |-> a.summaryOnly,
   maxEndpoints |->
     Num(Min(IF a.maxEndpoints = Undefined \/ a.maxEndpoints.n = 0
             THEN 10 ELSE a.maxEndpoints.n, 50))]

\* getEndpointDetails past the cache lookup
ComputeEndpointDetails(d, pathPattern, options) ==
  LET includeSchemas == Default(options.includeSchemas, Bool(TRUE)).b
      includeExamples == Default(options.includeExamples, Bool(FALSE)).b
      summaryOnly == Default(options.summaryOnly, Bool(FALSE)).b
      maxEndpoints == Default(options.maxEndpoints, Num(10)).n
      taken == ScanEndpoints(d.paths, 1, pathPattern, maxEndpoints, <<>>)
  IN [kind |-> "ok",
      matchCount |-> Len(taken),
      endpoints |->
        [k \in 1..Len(taken) |->
           Endpoint(d.paths[taken[k][1]], d.paths[taken[k][1]].ops[taken[k][2]],
                    summaryOnly, includeSchemas, includeExamples)]]

\* getEndpointDetails with its cache: keyText is `${pathPattern}` as the key
\* holds it, source the pattern new RegExp() compiles. The result the handler
\* serializes, and the cache after the call.
CachedEndpointDetails(d, cache, keyText, source, options) ==
  LET key == CacheKey(keyText, options)
  IN IF d = Null THEN [result |-> Failure("Schema not loaded"), cache |-> cache]
     ELSE IF key \in DOMAIN cache THEN [result |-> cache[key], cache |-> cache]
     ELSE IF RegexSyntaxError(source)
     THEN [result |-> Failure("Invalid regular expression"), cache |-> cache]
     ELSE LET r == ComputeEndpointDetails(d, source, options)
          IN [result |-> r, cache |-> cache @@ (key :> r)]

\* a call whose pathPattern is a string
ConnectWiseDetails(d, cache, a) ==
  CachedEndpointDetails(d, cache, a.pathPattern, a.pathPattern, HandlerOptions(a))


-----------------------------------------------------------------------------
(* The endpoint-details tool of the three servers *)

T_device == <<"d","e","v","i","c","e">>

\* pathPattern arguments: a literal in either case, a pattern with a regular
\* expression wildcard, one that matches nothing, an unclosed group and ''.
PathPatterns ==
  { T_device, <<"D","E","V">>, <<"d",".","v">>, <<"z","z">>, <<"(">>, <<>> }

MaxEndpointsArgs == {Undefined, Num(0), Num(1), Num(60)}

\* (summaryOnly, includeSchemas) as the caller passes them
DetailModes ==
  { <<Undefined, Undefined>>, <<Bool(TRUE), Undefined>>, <<Undefined, Bool(FALSE)>> }

DetailsArgs ==
  { [pathPattern |-> pt, maxEndpoints |-> m, summaryOnly |-> dm[1],
     includeSchemas |-> dm[2], includeExamples |-> Undefined] :
      pt \in PathPatterns, m \in MaxEndpointsArgs, dm \in DetailModes }

DetailsCall(a) == [op |-> "details", args |-> a]

\* case 'ninjaone_get_api_endpoint_details'
NinjaOneEndpointDetails(a) ==
  /\ vendor = "ninjaone"
  /\ call' = DetailsCall(a)
  /\ result' = NinjaOneDetails(doc, a)
  /\ UNCHANGED <<vendor, authVars, regionVars, processVars, doc, schemaCache>>

\* case 'halopsa_get_api_endpoint_details'
HaloPSAEndpointDetails(a) ==
  /\ vendor = "halopsa"
  /\ call' = DetailsCall(a)
  /\ result' = HaloPSADetails(doc, a)
  /\ UNCHANGED <<vendor, authVars, regionVars, processVars, doc, schemaCache>>

\* case 'connectwise_get_endpoint_details'. The cache never evicts; the model
\* takes no call that would add a key to a cache of MaxCache entries.
ConnectWiseEndpointDetails(a) ==
  /\ vendor = "connectwise"
  /\ \/ doc = Null
     \/ RegexSyntaxError(a.pathPattern)
     \/ CacheKey(a.pathPattern, HandlerOptions(a)) \in DOMAIN schemaCache
     \/ Cardinality(DOMAIN schemaCache) < MaxCache
  /\ LET r == ConnectWiseDetails(doc, schemaCache, a)
     IN /\ call' = DetailsCall(a)
        /\ result' = r.result
        /\ schemaCache' = r.cache
  /\ UNCHANGED <<vendor, authVars, regionVars, processVars, doc>>

\* The document a client works on. It is Null when ConnectWise's loadSchema()
\* could not read the bundled file and when NinjaOne's fetch fails; HaloPSA
\* imports a file that is part of the build.
LoadedDocs(v) == IF v = "halopsa" THEN Docs ELSE Docs \cup {Null}

InitCatalog ==
  /\ vendor \in Vendors
  /\ InitAuth
  /\ ProcessAtRest
  /\ RegionAtRest
  /\ doc \in LoadedDocs(vendor)
  /\ schemaCache = <<>>
  /\ call = NoCall
  /\ result = NoResult

NextDetails ==
  \/ \E a \in DetailsArgs : NinjaOneEndpointDetails(a)
  \/ \E a \in DetailsArgs : HaloPSAEndpointDetails(a)
  \/ \E a \in DetailsArgs : ConnectWiseEndpointDetails(a)

SpecDetails == InitCatalog /\ [][NextDetails]_vars


-----------------------------------------------------------------------------
(* Properties of the endpoint-details tool *)

DetailsDone == call.op = "details" /\ result.kind = "ok"

\* the entries of a details result: paths (NinjaOne, HaloPSA) or endpoints
ReturnedEntries ==
  IF "matchingPaths" \in DOMAIN result THEN result.matchingPaths
  ELSE result.endpoints

\* the paths of the document that contain the pattern of the call as a
\* case-insensitive literal substring, by position
TrueMatches ==
  {i \in 1..Len(doc.paths) :
     Includes(ToLowerCase(doc.paths[i].path), ToLowerCase(call.args.pathPattern))}

NthTrueMatch(k) ==
  CHOOSE i \in TrueMatches : Cardinality({j \in TrueMatches : j <= i}) = k

\* C8: Cap enforcement. When the caller supplies maxEndpoints = K, the result
\* of the details tool holds at most min(K, 50) entries, and whenever more
\* paths match than were returned the result carries limited = true.
C8_CapEnforcement ==
  (DetailsDone /\ call.args.maxEndpoints # Undefined) =>
    LET K == call.args.maxEndpoints.n
        returned == Len(ReturnedEntries)
    IN /\ returned <= Min(K, 50)
       /\ Cardinality(TrueMatches) > returned =>
            ("limited" \in DOMAIN result /\ result.limited = TRUE)

\* C9: the details tool returns exactly the first min(maxEndpoints, 50) paths,
\* in document order, that contain the pattern as a case-insensitive literal
\* substring; matchCount is the number returned, totalMatches the number of
\* all matching paths, and matchCount = min(totalMatches, min(maxEndpoints, 50)).
C9_FirstMatchingPaths ==
  DetailsDone =>
    LET maxEndpoints == IF call.args.maxEndpoints = Undefined THEN 10
                        ELSE call.args.maxEndpoints.n
        expected == Min(Cardinality(TrueMatches), Min(maxEndpoints, 50))
    IN /\ Len(ReturnedEntries) = expected
       /\ \A k \in 1..expected :
            ReturnedEntries[k].path = doc.paths[NthTrueMatch(k)].path
       /\ result.matchCount = expected
       /\ "totalMatches" \in DOMAIN result
       /\ result.totalMatches = Cardinality(TrueMatches)


-----------------------------------------------------------------------------
(* The endpoint search of ConnectWise and HaloPSA *)

Whitespace == {" ", "\t"}

\* String.prototype.split(/\s+/): a run of whitespace separates two tokens;
\* leading or trailing whitespace, and the empty string, give an empty token.
RECURSIVE SplitFrom(_, _, _, _)
SplitFrom(s, i, cur, acc) ==
  IF i > Len(s) THEN Append(acc, cur)
  ELSE IF s[i] \in Whitespace
  THEN (IF i > 1 /\ s[i - 1] \in Whitespace THEN SplitFrom(s, i + 1, cur, acc)
        ELSE SplitFrom(s, i + 1, <<>>, Append(acc, cur)))
  ELSE SplitFrom(s, i + 1, Append(cur, s[i]), acc)

SplitWhitespace(s) == SplitFrom(s, 1, <<>>, <<>>)

\* Array.prototype.join(' ')
RECURSIVE Join(_)
Join(parts) ==
  IF Len(parts) = 0 THEN <<>>
  ELSE IF Len(parts) = 1 THEN parts[1]
  ELSE parts[1] \o <<" ">> \o Join(Tail(parts))

\* op.summary || ''
OrEmpty(v) == IF StrTruthy(v) THEN v.chars ELSE <<>>

\* ...(op.tags || [])
TagItems(o) == IF o.tags = Undefined THEN <<>> ELSE o.tags.items

\* The (path, operation) pairs in the order of the two nested loops
RECURSIVE Operations(_, _)
Operations(paths, i) ==
  IF i > Len(paths) THEN <<>>
  ELSE [j \in 1..Len(paths[i].ops) |-> <<i, j>>] \o Operations(paths, i + 1)

\* ConnectWise: [path, method, operationId, summary, description, ...tags]
SearchableText(pe, o) ==
  ToLowerCase(Join(<<pe.path, o.method, OrEmpty(o.operationId), OrEmpty(o.summary),
                     OrEmpty(o.description)>> \o TagItems(o)))

TermsMatchSome(searchTerms, text) ==
  \E k \in 1..Len(searchTerms) : Includes(text, searchTerms[k])

\* searchTerms.every(term => searchableText.includes(term))
TermsMatch(searchTerms, text) ==
  \A k \in 1..Len(searchTerms) : Includes(text, searchTerms[k])

\* `${method.toUpperCase()} ${path} - ${op.summary || 'No summary'}`
ResultLine(pe, o) ==
  ToUpperCase(o.method) \o <<" ">> \o pe.path \o <<" ", "-", " ">>
  \o (IF StrTruthy(o.summary) THEN o.summary.chars
      ELSE <<"N","o"," ","s","u","m","m","a","r","y">>)

\* searchEndpoints(query) and the handler's { results, count }
ConnectWiseSearch(d, query) ==
  IF d = Null THEN Failure("Schema not loaded")
  ELSE
    LET searchTerms == SplitWhitespace(ToLowerCase(query))
        Hit(e) == TermsMatch(searchTerms,
                             SearchableText(d.paths[e[1]], d.paths[e[1]].ops[e[2]]))
        hits == SelectSeq(Operations(d.paths, 1), Hit)
        results == [k \in 1..Len(hits) |->
                      ResultLine(d.paths[hits[k][1]], d.paths[hits[k][1]].ops[hits[k][2]])]
    IN [kind |-> "ok", results |-> results, count |-> Len(results)]

\* HaloPSA: [path, summary, description, ...tags]
HaloPSASearchableText(pe, o) ==
  ToLowerCase(Join(<<pe.path, OrEmpty(o.summary), OrEmpty(o.description)>>
                   \o TagItems(o)))

\* a variant that takes one item more than asked for
SliceOverlap(s, start, end) == SubSeq(s, start + 1, Min(end + 1, Len(s)))

SliceLimitFirst(s, start, end) ==
  LET limited == SubSeq(s, 1, Min(end - start, Len(s)))
  IN SubSeq(limited, start + 1, Len(limited))

\* Array.prototype.slice(start, end) for start, end >= 0
Slice(s, start, end) == SubSeq(s, start + 1, Min(end, Len(s)))

\* searchApiEndpoints(query, limit = 50, skip = 0)
SearchApiEndpoints(d, a) ==
  LET limit == Default(a.limit, Num(50)).n
      skip == Default(a.skip, Num(0)).n
      Hit(e) == Includes(HaloPSASearchableText(d.paths[e[1]], d.paths[e[1]].ops[e[2]]),
                         ToLowerCase(a.query))
      hits == SelectSeq(Operations(d.paths, 1), Hit)
      matchingEndpoints ==
        [k \in 1..Len(hits) |->
           LET pe == d.paths[hits[k][1]]
               o == pe.ops[hits[k][2]]
           IN [path |-> pe.path, method |-> ToUpperCase(o.method),
               summary |-> o.summary, description |-> o.description,
               tags |-> o.tags]]
      paginatedResults == Slice(matchingEndpoints, skip, skip + limit)
  IN [kind |-> "ok",
      query |-> a.query,
      results |-> paginatedResults,
      returnedCount |-> Len(paginatedResults),
      totalResults |-> Len(matchingEndpoints),
      skipped |-> skip,
      hasMore |-> (skip + Len(paginatedResults) < Len(matchingEndpoints)),
      message |-> [found |-> Len(matchingEndpoints), matching |-> a.query,
                   showing |-> Len(paginatedResults), position |-> skip]]

\* case 'halopsa_search_api_endpoints': if (!query) throw
HaloPSASearch(d, a) ==
  IF a.query = <<>> THEN Failure("Search query is required")
  ELSE SearchApiEndpoints(d, a)

Queries ==
  { <<"t","i","c","k","e","t"," ","c","r","e","a","t","e">>,
    <<"T","I","C","K","E","T"," "," ","c","r","e","a","t","e">>,
    <<"c","r","e","a","t","e"," ","t","i","c","k","e","t">>,
    <<"t","i","c","k","e","t">>,
    <<"d","e","v","i","c","e"," ","l","i","s","t">>,
    <<" ","t","i","c","k","e","t">>,
    <<"z","z"," ","t","i","c","k","e","t">>,
    <<>>,
    <<"t","i","c","k","e","t","\t","c","r","e","a","t","e">>,
    <<"D","E","V","I","C","E">>,
    <<"r","o","l","e","s"," ","l","i","s","t">> }

LimitArgs == {Undefined, Num(1), Num(2)}
SkipArgs == {Undefined, Num(1)}

SearchCall(a) == [op |-> "search", args |-> a]

\* case 'connectwise_search_endpoints'
ConnectWiseSearchEndpoints(query) ==
  /\ vendor = "connectwise"
  /\ call' = SearchCall([query |-> query])
  /\ result' = ConnectWiseSearch(doc, query)
  /\ UNCHANGED <<vendor, authVars, regionVars, processVars, doc, schemaCache>>

\* case 'halopsa_search_api_endpoints'
HaloPSASearchApiEndpoints(a) ==
  /\ vendor = "halopsa"
  /\ call' = SearchCall(a)
  /\ result' = HaloPSASearch(doc, a)
  /\ UNCHANGED <<vendor, authVars, regionVars, processVars, doc, schemaCache>>

NextSearch ==
  \/ \E q \in Queries : ConnectWiseSearchEndpoints(q)
  \/ \E q \in Queries : \E l \in LimitArgs : \E sk \in SkipArgs :
       HaloPSASearchApiEndpoints([query |-> q, limit |-> l, skip |-> sk])

\* NinjaOne has no search tool
InitSearch == InitCatalog /\ vendor # "ninjaone"

SpecSearch == InitSearch /\ [][NextSearch]_vars


-----------------------------------------------------------------------------
(* Properties of the endpoint search *)

SearchDone == call.op = "search" /\ result.kind = "ok"

\* the lowercase tokens of the query of the call
QueryTokens == SplitWhitespace(ToLowerCase(call.args.query))

\* the combined searchable text of an entry of the document: path, method,
\* operationId, summary, description and tags, lowercased
CombinedText(e) ==
  LET pe == doc.paths[e[1]]
      o == pe.ops[e[2]]
  IN ToLowerCase(Join(<<pe.path, o.method, OrEmpty(o.operationId),
                        OrEmpty(o.summary), OrEmpty(o.description)>>
                      \o TagItems(o)))

ContainsEveryToken(e) ==
  \A k \in 1..Len(QueryTokens) : Includes(CombinedText(e), QueryTokens[k])

ContainsSomeToken(e) ==
  \E k \in 1..Len(QueryTokens) : Includes(CombinedText(e), QueryTokens[k])

\* the entries of the document: its (path, operation) pairs
Entries ==
  LET all == Operations(doc.paths, 1)
  IN {all[k] : k \in 1..Len(all)}

\* item is the search result for entry e: a line of ConnectWise, or a record
\* of HaloPSA with the path and the method of e
ResultOf(item, e) ==
  LET pe == doc.paths[e[1]]
      o == pe.ops[e[2]]
  IN IF vendor = "connectwise" THEN item = ResultLine(pe, o)
     ELSE item.path = pe.path /\ item.method = ToUpperCase(o.method)

Returned(e) == \E k \in 1..Len(result.results) : ResultOf(result.results[k], e)

\* C10: Search AND-semantics. Every entry a search returns has a combined
\* searchable text that contains every whitespace-separated lowercase token of
\* the query; an entry that contains only some of the tokens is not returned.
C10_SearchAndSemantics ==
  SearchDone =>
    /\ \A k \in 1..Len(result.results) :
         \E e \in Entries : ResultOf(result.results[k], e) /\ ContainsEveryToken(e)
    /\ \A e \in Entries :
         (ContainsSomeToken(e) /\ ~ContainsEveryToken(e)) => ~Returned(e)

\* A two-token search that returned an entry holding both tokens while the
\* document has an entry that holds only one of them.
C10_Witness ==
  /\ SearchDone
  /\ Len(QueryTokens) = 2
  /\ \E e \in Entries : Returned(e) /\ ContainsEveryToken(e)
  /\ \E e \in Entries : ContainsSomeToken(e) /\ ~ContainsEveryToken(e) /\ ~Returned(e)


-----------------------------------------------------------------------------
(* categorizeApiPath of NinjaOneClient and HaloPSAClient *)

MaxMarkers == 2

\* The cascades of `if (path.includes(..)) return ..`, top to bottom
NinjaOneRules ==
  << [subs |-> <<<<"/","d","e","v","i","c","e">>>>, category |-> "Device Management"],
     [subs |-> <<<<"/","o","r","g","a","n","i","z","a","t","i","o","n">>>>, category |-> "Organization Management"],
     [subs |-> <<<<"/","a","l","e","r","t">>>>, category |-> "Alert Management"],
     [subs |-> <<<<"/","p","o","l","i","c","y">>, <<"/","p","o","l","i","c","i","e","s">>>>, category |-> "Policy Management"],
     [subs |-> <<<<"/","s","o","f","t","w","a","r","e">>>>, category |-> "Software Management"],
     [subs |-> <<<<"/","p","a","t","c","h">>>>, category |-> "Patch Management"],
     [subs |-> <<<<"/","s","c","r","i","p","t">>>>, category |-> "Script Management"],
     [subs |-> <<<<"/","j","o","b">>>>, category |-> "Job Management"],
     [subs |-> <<<<"/","m","a","i","n","t","e","n","a","n","c","e">>>>, category |-> "Maintenance Management"],
     [subs |-> <<<<"/","b","a","c","k","u","p">>>>, category |-> "Backup Management"],
     [subs |-> <<<<"/","a","n","t","i","v","i","r","u","s">>>>, category |-> "Antivirus Management"],
     [subs |-> <<<<"/","u","s","e","r">>>>, category |-> "User Management"],
     [subs |-> <<<<"/","l","o","c","a","t","i","o","n">>>>, category |-> "Location Management"],
     [subs |-> <<<<"/","a","c","t","i","v","i","t","y">>, <<"/","a","c","t","i","v","i","t","i","e","s">>>>, category |-> "Activity Management"],
     [subs |-> <<<<"/","w","e","b","h","o","o","k">>>>, category |-> "Webhook Management"] >>

HaloPSARules ==
  << [subs |-> <<<<"/","a","c","t","i","o","n","s">>>>, category |-> "Actions"],
     [subs |-> <<<<"/","t","i","c","k","e","t">>>>, category |-> "Tickets"],
     [subs |-> <<<<"/","a","g","e","n","t">>>>, category |-> "Agents"],
     [subs |-> <<<<"/","c","l","i","e","n","t">>>>, category |-> "Clients"],
     [subs |-> <<<<"/","s","i","t","e">>>>, category |-> "Sites"],
     [subs |-> <<<<"/","u","s","e","r">>>>, category |-> "Users"],
     [subs |-> <<<<"/","a","s","s","e","t">>>>, category |-> "Assets"],
     [subs |-> <<<<"/","i","n","v","o","i","c","e">>>>, category |-> "Invoicing"],
     [subs |-> <<<<"/","r","e","p","o","r","t">>>>, category |-> "Reports"],
     [subs |-> <<<<"/","a","d","d","r","e","s","s">>>>, category |-> "Addresses"],
     [subs |-> <<<<"/","a","p","p","o","i","n","t","m","e","n","t">>>>, category |-> "Appointments"],
     [subs |-> <<<<"/","p","r","o","j","e","c","t">>>>, category |-> "Projects"],
     [subs |-> <<<<"/","c","o","n","t","r","a","c","t">>>>, category |-> "Contracts"],
     [subs |-> <<<<"/","s","u","p","p","l","i","e","r">>>>, category |-> "Suppliers"],
     [subs |-> <<<<"/","p","r","o","d","u","c","t">>>>, category |-> "Products"],
     [subs |-> <<<<"/","k","b">>, <<"/","k","n","o","w","l","e","d","g","e">>>>, category |-> "Knowledge Base"],
     [subs |-> <<<<"/","i","n","t","e","g","r","a","t","i","o","n">>>>, category |-> "Integrations"],
     [subs |-> <<<<"/","w","e","b","h","o","o","k">>>>, category |-> "Webhooks"],
     [subs |-> <<<<"/","a","p","i">>>>, category |-> "API Management"] >>

CategoryRules(v) == IF v = "ninjaone" THEN NinjaOneRules ELSE HaloPSARules

\* The string the rules look at: HaloPSA tests lowerPath = path.toLowerCase()
RulePath(v, path) == IF v = "halopsa" THEN ToLowerCase(path) ELSE path

\* the condition of one `if`
RuleMatches(v, rule, path) ==
  \E k \in 1..Len(rule.subs) : Includes(RulePath(v, path), rule.subs[k])

\* categorizeApiPath from rule i on
RECURSIVE Categorize(_, _, _)
Categorize(v, path, i) ==
  IF i > Len(CategoryRules(v)) THEN "Other"
  ELSE IF RuleMatches(v, CategoryRules(v)[i], path) THEN CategoryRules(v)[i].category
  ELSE Categorize(v, path, i + 1)

CategorizeApiPathLast(v, path) ==
  LET hits == {k \in 1..Len(CategoryRules(v)) : RuleMatches(v, CategoryRules(v)[k], path)}
  IN IF hits = {} THEN "Other"
     ELSE CategoryRules(v)[CHOOSE k \in hits : \A h \in hits : h <= k].category

CategorizeApiPath(v, path) == Categorize(v, path, 1)

\* Path segments that carry the marker of a rule, in either case, or of none
Markers ==
  { <<"/","d","e","v","i","c","e">>,
    <<"/","D","e","v","i","c","e">>,
    <<"/","o","r","g","a","n","i","z","a","t","i","o","n">>,
    <<"/","p","o","l","i","c","i","e","s">>,
    <<"/","u","s","e","r">>,
    <<"/","w","e","b","h","o","o","k">>,
    <<"/","t","i","c","k","e","t">>,
    <<"/","A","c","t","i","o","n","s">>,
    <<"/","a","p","i">>,
    <<"/","x">> }

\* synthetic paths: up to n markers in a row
RECURSIVE MarkerPaths(_)
MarkerPaths(n) ==
  IF n = 0 THEN {<<>>}
  ELSE MarkerPaths(n - 1) \cup {p \o m : p \in MarkerPaths(n - 1), m \in Markers}

InitCategorize ==
  /\ vendor \in Vendors \ {"connectwise"}
  /\ InitAuth
  /\ ProcessAtRest
  /\ RegionAtRest
  /\ doc = EmptyDoc
  /\ schemaCache = <<>>
  /\ call \in {[op |-> "categorize", args |-> [path |-> p]] : p \in MarkerPaths(MaxMarkers)}
  /\ result = NoResult

CategorizeAction ==
  /\ result = NoResult
  /\ result' = [kind |-> "ok", category |-> CategorizeApiPath(vendor, call.args.path)]
  /\ UNCHANGED <<vendor, authVars, regionVars, processVars, doc, schemaCache, call>>

NextCategorize == CategorizeAction

SpecCategorize == InitCategorize /\ [][NextCategorize]_vars

\* the rules of the vendor that apply to the path of the call
MatchingRules ==
  {k \in 1..Len(CategoryRules(vendor)) :
     RuleMatches(vendor, CategoryRules(vendor)[k], call.args.path)}

\* C11: Category precedence. The category of a path is that of the first rule,
\* in the fixed rule order, whose substring occurs in the path, and "Other"
\* when no rule applies; with two applicable rules the earlier one wins.
C11_CategoryPrecedence ==
  (call.op = "categorize" /\ result.kind = "ok") =>
    IF MatchingRules = {} THEN result.category = "Other"
    ELSE \E k \in MatchingRules :
           /\ \A h \in MatchingRules : k <= h
           /\ result.category = CategoryRules(vendor)[k].category

\* a path that two rules apply to has been categorized
C11_Witness ==
  /\ call.op = "categorize"
  /\ result.kind = "ok"
  /\ Cardinality(MatchingRules) >= 2
  /\ \E k \in MatchingRules :
       result.category # CategoryRules(vendor)[k].category


-----------------------------------------------------------------------------
(* getApiSchemas of HaloPSAClient *)

\* schemaPattern && !name.toLowerCase().includes(schemaPattern.toLowerCase())
SchemaFiltered(name, schemaPattern) ==
  StrTruthy(schemaPattern)
  /\ ~Includes(ToLowerCase(name), ToLowerCase(schemaPattern.chars))

\* The forEach over the schemas from name i on. st holds matchingSchemaNames,
\* the names put into `schemas` and skippedCount; schemaCount is Len(st.schemas).
RECURSIVE ScanSchemasFrom(_, _, _, _, _, _)
ScanSchemasFrom(names, i, schemaPattern, limit, skip, st) ==
  IF i > Len(names) THEN st
  ELSE
    LET name == names[i]
        matched == [st EXCEPT !.matching = Append(@, name)]
        next ==
          IF SchemaFiltered(name, schemaPattern) THEN st
          ELSE IF st.skippedCount < skip
          THEN [matched EXCEPT !.skippedCount = @ + 1]
          ELSE IF Len(st.schemas) >= limit THEN matched
          ELSE [matched EXCEPT !.schemas = Append(@, name)]
    IN ScanSchemasFrom(names, i + 1, schemaPattern, limit, skip, next)

ScanSchemasPaginateFirst(names, schemaPattern, limit, skip) ==
  LET Keep(name) == ~SchemaFiltered(name, schemaPattern)
  IN [matching |-> SelectSeq(names, Keep),
      schemas |-> SelectSeq(Slice(names, skip, skip + limit), Keep),
      skippedCount |-> Min(skip, Len(names))]

ScanSchemas(names, schemaPattern, limit, skip) ==
  ScanSchemasFrom(names, 1, schemaPattern, limit, skip,
                  [matching |-> <<>>, schemas |-> <<>>, skippedCount |-> 0])

\* UTF-16 code unit order of the characters that occur in schema names
CodeOrder ==
  <<" ">> \o <<"0","1","2","3","4","5","6","7","8","9">> \o UpperCase \o <<"_">> \o LowerCase

CharCode == [c \in {CodeOrder[k] : k \in 1..Len(CodeOrder)} |->
               CHOOSE k \in 1..Len(CodeOrder) : CodeOrder[k] = c]

\* a < b in the order of Array.prototype.sort() without a comparator
StringLess(a, b) ==
  \E i \in 1..Len(b) :
    /\ \A j \in 1..(i - 1) : j <= Len(a) /\ a[j] = b[j]
    /\ (i > Len(a) \/ CharCode[a[i]] < CharCode[b[i]])

\* matchingSchemaNames.sort(): each name is put at its place among the sorted
\* names before it; the names of a document are distinct
RECURSIVE Sort(_)
Sort(names) ==
  IF Len(names) = 0 THEN <<>>
  ELSE LET sorted == Sort(SubSeq(names, 1, Len(names) - 1))
           name == names[Len(names)]
           before == Cardinality({j \in 1..Len(sorted) : StringLess(sorted[j], name)})
       IN SubSeq(sorted, 1, before) \o <<name>> \o SubSeq(sorted, before + 1, Len(sorted))

NamesListedAlways(listNames, matching) == TRUE

\* if (listNames || matchingSchemaNames.length <= 20)
NamesListed(listNames, matching) == listNames \/ Len(matching) <= 20

\* getApiSchemas(schemaPattern, limit = 50, skip = 0, listNames = false)
GetApiSchemas(d, a) ==
  LET limit == Default(a.limit, Num(50)).n
      skip == Default(a.skip, Num(0)).n
      listNames == Default(a.listNames, Bool(FALSE)).b
      st == ScanSchemas(d.schemas, a.schemaPattern, limit, skip)
      schemaCount == Len(st.schemas)
      base ==
        [kind |-> "ok",
         schemas |-> st.schemas,
         returnedCount |-> schemaCount,
         matchingCount |-> Len(st.matching),
         totalSchemasInAPI |-> Len(d.schemas),
         skipped |-> skip,
         limited |-> (schemaCount >= limit),
         hasMore |-> (skip + schemaCount < Len(st.matching)),
         message |-> IF StrTruthy(a.schemaPattern)
                     THEN [showing |-> schemaCount, of |-> Len(st.matching),
                           matching |-> a.schemaPattern, skipped |-> skip]
                     ELSE [showing |-> schemaCount, position |-> skip,
                           total |-> Len(d.schemas)]]
  IN IF NamesListed(listNames, st.matching)
     THEN With(base, "schemaNames", Sort(st.matching))
     ELSE With(base, "hint", [match |-> Len(st.matching)])

SchemaPatternArgs ==
  {Undefined, Text(<<>>), Text(<<"T","i","c","k","e","t">>),
   Text(<<"s","c","h","e","m","a">>), Text(<<"z","z">>)}

SchemaLimitArgs == {Undefined, Num(1), Num(2)}
SchemaSkipArgs == {Undefined, Num(1), Num(4)}
ListNamesArgs == {Undefined, Bool(TRUE)}

SchemasArgs ==
  { [schemaPattern |-> sp, limit |-> l, skip |-> sk, listNames |-> ln] :
      sp \in SchemaPatternArgs, l \in SchemaLimitArgs, sk \in SchemaSkipArgs,
      ln \in ListNamesArgs }

\* a variant that sorts the names of the document itself
HaloPSAGetApiSchemasInPlace(a) ==
  /\ vendor = "halopsa"
  /\ call' = [op |-> "schemas", args |-> a]
  /\ result' = GetApiSchemas(doc, a)
  /\ doc' = [doc EXCEPT !.schemas = Sort(@)]
  /\ UNCHANGED <<vendor, authVars, regionVars, processVars, schemaCache>>

\* case 'halopsa_get_api_schemas'
HaloPSAGetApiSchemas(a) ==
  /\ vendor = "halopsa"
  /\ call' = [op |-> "schemas", args |-> a]
  /\ result' = GetApiSchemas(doc, a)
  /\ UNCHANGED <<vendor, authVars, regionVars, processVars, doc, schemaCache>>

InitSchemas == InitCatalog /\ vendor = "halopsa"

NextSchemas == \E a \in SchemasArgs : HaloPSAGetApiSchemas(a)

SpecSchemas == InitSchemas /\ [][NextSchemas]_vars

SchemasDone == call.op = "schemas" /\ result.kind = "ok"

\* the names that contain the pattern of the call, case-insensitively, in
\* discovery order; every name when no pattern is given
MatchingNames ==
  LET sp == call.args.schemaPattern
      Has(name) == sp = Undefined \/ Includes(ToLowerCase(name), ToLowerCase(sp.chars))
  IN SelectSeq(doc.schemas, Has)

\* C12: listSchemas filters, then paginates. The schemas returned are the
\* matching names at positions skip+1 .. skip+limit of the list of matching
\* names, in discovery order; non-matching names use up neither skip nor limit.
C12_FilterThenPaginate ==
  SchemasDone =>
    LET limit == IF call.args.limit = Undefined THEN 50 ELSE call.args.limit.n
        skip == IF call.args.skip = Undefined THEN 0 ELSE call.args.skip.n
    IN result.schemas = SubSeq(MatchingNames, skip + 1, Min(skip + limit, Len(MatchingNames)))

\* listSchemas("Ticket", limit 2, skip 1) over five *Ticket* schemas among
\* others returned the 2nd and the 3rd of them, with hasMore
C12_Witness ==
  /\ SchemasDone
  /\ call.args.schemaPattern = Text(<<"T","i","c","k","e","t">>)
  /\ call.args.limit = Num(2)
  /\ call.args.skip = Num(1)
  /\ Len(MatchingNames) = 5
  /\ Len(doc.schemas) > 5
  /\ result.schemas = <<MatchingNames[2], MatchingNames[3]>>
  /\ result.hasMore


-----------------------------------------------------------------------------
(* listApiEndpoints of HaloPSAClient *)

\* String.prototype.localeCompare in the root collation, for the characters of
\* the paths of Docs: punctuation, then digits, then letters; letters differ
\* by case only when everything else is equal, lowercase first.
CollationOrder ==
  <<"_","-","{","}","/">> \o <<"0","1","2","3","4","5","6","7","8","9">> \o LowerCase

PrimaryWeight == [c \in {CollationOrder[k] : k \in 1..Len(CollationOrder)} |->
                    CHOOSE k \in 1..Len(CollationOrder) : CollationOrder[k] = c]

\* the primary weights of the characters of a string
CollationKey(a) ==
  SubSeq([j \in 1..Len(a) |-> PrimaryWeight[ToLowerChar(a[j])]], 1, Len(a))

\* the first difference of primary weights decides; a proper prefix sorts first
PrimaryLess(ka, kb) ==
  \E i \in 1..Len(kb) :
    /\ \A j \in 1..(i - 1) : j <= Len(ka) /\ ka[j] = kb[j]
    /\ (i > Len(ka) \/ ka[i] < kb[i])

\* between strings that differ in case only, lower case sorts first
CaseLess(a, b) ==
  \E i \in 1..Len(a) :
    /\ \A j \in 1..(i - 1) : a[j] = b[j]
    /\ a[i] # b[i]
    /\ a[i] = ToLowerChar(a[i])

\* a.localeCompare(b) < 0
LocaleLess(a, b) ==
  LET ka == CollationKey(a)
      kb == CollationKey(b)
  IN PrimaryLess(ka, kb) \/ (ka = kb /\ CaseLess(a, b))

\* allMatchingEndpoints.sort((a, b) => a.path.localeCompare(b.path)); the
\* paths of a document are distinct
SortByPath(endpoints) ==
  LET n == Len(endpoints)
      keys == SubSeq([i \in 1..n |-> CollationKey(endpoints[i].path)], 1, n)
      Less(j, i) == \/ PrimaryLess(keys[j], keys[i])
                    \/ keys[j] = keys[i] /\ CaseLess(endpoints[j].path, endpoints[i].path)
      \* for each endpoint, the number of endpoints that sort before it
      before == SubSeq([i \in 1..n |-> Cardinality({j \in 1..n : Less(j, i)})], 1, n)
      order == SubSeq([k \in 1..n |-> CHOOSE i \in 1..n : before[i] = k - 1], 1, n)
  IN SubSeq([k \in 1..n |-> endpoints[order[k]]], 1, n)

\* the characters of the category names of HaloPSA
CategoryText(c) ==
  CASE c = "Actions" -> <<"A","c","t","i","o","n","s">>
    [] c = "Tickets" -> <<"T","i","c","k","e","t","s">>
    [] c = "Agents" -> <<"A","g","e","n","t","s">>
    [] c = "Clients" -> <<"C","l","i","e","n","t","s">>
    [] c = "Sites" -> <<"S","i","t","e","s">>
    [] c = "Users" -> <<"U","s","e","r","s">>
    [] c = "Assets" -> <<"A","s","s","e","t","s">>
    [] c = "Invoicing" -> <<"I","n","v","o","i","c","i","n","g">>
    [] c = "Reports" -> <<"R","e","p","o","r","t","s">>
    [] c = "Addresses" -> <<"A","d","d","r","e","s","s","e","s">>
    [] c = "Appointments" -> <<"A","p","p","o","i","n","t","m","e","n","t","s">>
    [] c = "Projects" -> <<"P","r","o","j","e","c","t","s">>
    [] c = "Contracts" -> <<"C","o","n","t","r","a","c","t","s">>
    [] c = "Suppliers" -> <<"S","u","p","p","l","i","e","r","s">>
    [] c = "Products" -> <<"P","r","o","d","u","c","t","s">>
    [] c = "Knowledge Base" -> <<"K","n","o","w","l","e","d","g","e"," ","B","a","s","e">>
    [] c = "Integrations" -> <<"I","n","t","e","g","r","a","t","i","o","n","s">>
    [] c = "Webhooks" -> <<"W","e","b","h","o","o","k","s">>
    [] c = "API Management" -> <<"A","P","I"," ","M","a","n","a","g","e","m","e","n","t">>
    [] c = "Other" -> <<"O","t","h","e","r">>

\* the endpoint pushed for one path
ListedEndpoint(pe) ==
  [path |-> pe.path, methods |-> Methods(pe.ops), summary |-> FirstSummary(pe.ops),
   category |-> CategorizeApiPath("halopsa", pe.path)]

\* listApiEndpoints(category, limit = 100, skip = 0)
ListApiEndpoints(d, a) ==
  LET limit == Default(a.limit, Num(100)).n
      skip == Default(a.skip, Num(0)).n
      \* pathCategory.toLowerCase() !== category.toLowerCase()
      Kept(pe) == ~StrTruthy(a.category)
                  \/ ToLowerCase(CategoryText(CategorizeApiPath("halopsa", pe.path)))
                       = ToLowerCase(a.category.chars)
      kept == SelectSeq(d.paths, Kept)
      pushed == SubSeq([k \in 1..Len(kept) |-> ListedEndpoint(kept[k])], 1, Len(kept))
      allMatchingEndpoints == SortByPath(pushed)
      paginatedEndpoints == Slice(allMatchingEndpoints, skip, skip + limit)
  IN [kind |-> "ok",
      totalEndpoints |-> Len(allMatchingEndpoints),
      endpoints |-> paginatedEndpoints,
      returnedCount |-> Len(paginatedEndpoints),
      skipped |-> skip,
      limited |-> (Len(paginatedEndpoints) >= limit),
      hasMore |-> (skip + Len(paginatedEndpoints) < Len(allMatchingEndpoints)),
      categories |-> {allMatchingEndpoints[k].category : k \in 1..Len(allMatchingEndpoints)},
      message |-> IF StrTruthy(a.category)
                  THEN [showing |-> Len(paginatedEndpoints),
                        of |-> Len(allMatchingEndpoints), category |-> a.category]
                  ELSE [showing |-> Len(paginatedEndpoints), position |-> skip,
                        total |-> Len(allMatchingEndpoints)]]


-----------------------------------------------------------------------------
(* The three paginated queries of HaloPSA *)

PageLimitArgs == {Undefined, Num(1), Num(2)}
PageSkipArgs == {Undefined, Num(1), Num(4)}

PagedSearchArgs ==
  { [query |-> q, limit |-> l, skip |-> sk] :
      q \in {<<"t","i","c","k","e","t">>, T_device},
      l \in PageLimitArgs, sk \in PageSkipArgs }

PagedListArgs ==
  { [category |-> c, limit |-> l, skip |-> sk] :
      c \in {Undefined, Text(<<"t","i","c","k","e","t","s">>), Text(<<"O","t","h","e","r">>)},
      l \in PageLimitArgs, sk \in PageSkipArgs }

PagedSchemasArgs ==
  { [schemaPattern |-> sp, limit |-> l, skip |-> sk, listNames |-> Undefined] :
      sp \in {Undefined, Text(<<"T","i","c","k","e","t">>)},
      l \in PageLimitArgs, sk \in PageSkipArgs }

\* case 'halopsa_list_api_endpoints'
HaloPSAListApiEndpoints(a) ==
  /\ vendor = "halopsa"
  /\ call' = [op |-> "list", args |-> a]
  /\ result' = ListApiEndpoints(doc, a)
  /\ UNCHANGED <<vendor, authVars, regionVars, processVars, doc, schemaCache>>

NextPaging ==
  \/ \E a \in PagedSearchArgs : HaloPSASearchApiEndpoints(a)
  \/ \E a \in PagedListArgs : HaloPSAListApiEndpoints(a)
  \/ \E a \in PagedSchemasArgs : HaloPSAGetApiSchemas(a)

SpecPaging == InitSchemas /\ [][NextPaging]_vars

PagedDone == call.op \in {"search", "list", "schemas"} /\ result.kind = "ok"

\* the same query without pagination: skip 0 and a limit no document reaches
Unpaginated ==
  LET all == [call.args EXCEPT !.skip = Num(0),
                               !.limit = Num(Len(doc.paths) + Len(doc.paths) + Len(doc.schemas))]
  IN CASE call.op = "search" -> SearchApiEndpoints(doc, all).results
       [] call.op = "list" -> ListApiEndpoints(doc, all).endpoints
       [] call.op = "schemas" -> GetApiSchemas(doc, all).schemas

\* the page and the total a result reports
ReturnedPage ==
  CASE call.op = "search" -> result.results
    [] call.op = "list" -> result.endpoints
    [] call.op = "schemas" -> result.schemas

ReportedTotal ==
  CASE call.op = "search" -> result.totalResults
    [] call.op = "list" -> result.totalEndpoints
    [] call.op = "schemas" -> result.matchingCount

PageLimit ==
  IF call.args.limit # Undefined THEN call.args.limit.n
  ELSE CASE call.op = "search" -> 50 [] call.op = "list" -> 100 [] call.op = "schemas" -> 50

PageSkip == IF call.args.skip = Undefined THEN 0 ELSE call.args.skip.n

\* C13: Pagination consistency. In searchApiEndpoints, listApiEndpoints and
\* getApiSchemas the page is what is left of the matches after skip, cut to
\* limit; the reported returned count is the size of the page, the reported
\* total the number of all matches, and hasMore holds exactly when
\* skip + returned < total.
C13_PaginationConsistency ==
  PagedDone =>
    /\ ReturnedPage = SubSeq(Unpaginated, PageSkip + 1,
                             Min(PageSkip + PageLimit, Len(Unpaginated)))
    /\ result.returnedCount = Len(ReturnedPage)
    /\ ReportedTotal = Len(Unpaginated)
    /\ result.hasMore <=> (PageSkip + Len(ReturnedPage) < ReportedTotal)

\* a page that starts after a skip and is cut by the limit, with matches left
C13_Witness ==
  /\ PagedDone
  /\ call.op = "list"
  /\ PageSkip = 1
  /\ PageLimit = 2
  /\ Len(ReturnedPage) = 2
  /\ ReturnedPage[1] = Unpaginated[2]
  /\ result.hasMore


-----------------------------------------------------------------------------
(* Loading the API description: who reads or fetches it, and when *)

MaxLoads == 3


\* the introspection queries of this part: a pattern with matches and one without
LoadQueryArgs ==
  { a \in DetailsArgs :
      /\ a.pathPattern \in {T_device, <<"z","z">>}
      /\ a.maxEndpoints = Undefined
      /\ a.summaryOnly = Undefined
      /\ a.includeSchemas = Undefined }

\* what the remote server or the bundled file yields: a document or a failure
Loadable == Docs \cup {Null}

\* NinjaOne, first half of getApiEndpointDetails: every call starts its own
\* fetch of the API description and suspends on it
NinjaOneFetchDocument(p, a) ==
  /\ vendor = "ninjaone"
  /\ qpc[p] = Idle
  /\ loads < MaxLoads
  /\ loads' = loads + 1
  /\ qpc' = [qpc EXCEPT ![p] = [at |-> "fetch", args |-> a, load |-> TRUE]]
  /\ UNCHANGED <<vendor, authVars, regionVars, catalogVars, started, loadFailed, serverVars>>

\* NinjaOne, second half: the response d arrives; the document is a local of
\* the call and is kept nowhere
NinjaOneFetchResponse(p, d) ==
  /\ vendor = "ninjaone"
  /\ qpc[p] # Idle
  /\ call' = DetailsCall(qpc[p].args)
  /\ result' = NinjaOneDetails(d, qpc[p].args)
  /\ qpc' = [qpc EXCEPT ![p] = Idle]
  /\ loadFailed' = (loadFailed \/ d = Null)
  /\ UNCHANGED <<vendor, authVars, regionVars, doc, schemaCache, loads, started, serverVars>>

\* HaloPSA, await import('./swagger.json'): the first import reads the file
\* into the module cache, later ones get the cached module
HaloPSAImportDocument(p, a) ==
  /\ vendor = "halopsa"
  /\ qpc[p] = Idle
  /\ qpc' = [qpc EXCEPT ![p] = [at |-> "import", args |-> a, load |-> (doc = Null)]]
  /\ IF doc = Null
     THEN loads' = loads + 1 /\ doc' \in Docs
     ELSE UNCHANGED <<loads, doc>>
  /\ UNCHANGED <<vendor, authVars, regionVars, schemaCache, call, result, started, loadFailed, serverVars>>

\* HaloPSA, the rest of getApiEndpointDetails once the import has resolved
HaloPSAImported(p) ==
  /\ vendor = "halopsa"
  /\ qpc[p] # Idle
  /\ call' = DetailsCall(qpc[p].args)
  /\ result' = HaloPSADetails(doc, qpc[p].args)
  /\ qpc' = [qpc EXCEPT ![p] = Idle]
  /\ UNCHANGED <<vendor, authVars, regionVars, doc, schemaCache, loads, started, loadFailed, serverVars>>

\* ConnectWise: new ConnectWiseRMMClient(...) at startup calls loadSchema(),
\* which reads and parses the bundled file or logs the failure
ConnectWiseLoadSchema(d) ==
  /\ vendor = "connectwise"
  /\ ~started
  /\ loads' = loads + 1
  /\ doc' = d
  /\ started' = TRUE
  /\ loadFailed' = (d = Null)
  /\ UNCHANGED <<vendor, authVars, regionVars, schemaCache, call, result, qpc, serverVars>>

InitLoad ==
  /\ vendor \in Vendors
  /\ InitAuth
  /\ RegionAtRest
  /\ doc = Null
  /\ schemaCache = <<>>
  /\ call = NoCall
  /\ result = NoResult
  /\ loads = 0
  /\ qpc = [p \in Callers |-> Idle]
  /\ started = (vendor # "connectwise")
  /\ loadFailed = FALSE
  /\ ServerAtRest

NextLoad ==
  \/ \E p \in Callers : \E a \in LoadQueryArgs : NinjaOneFetchDocument(p, a)
  \/ \E p \in Callers : \E d \in Loadable : NinjaOneFetchResponse(p, d)
  \/ \E p \in Callers : \E a \in LoadQueryArgs : HaloPSAImportDocument(p, a)
  \/ \E p \in Callers : HaloPSAImported(p)
  \/ \E d \in Loadable : ConnectWiseLoadSchema(d)
  \/ \E a \in LoadQueryArgs : started /\ ConnectWiseEndpointDetails(a)
  \/ \E q \in {T_device} : started /\ ConnectWiseSearchEndpoints(q)

SpecLoad == InitLoad /\ [][NextLoad]_vars

\* C14: the API description is read or fetched no more than once per process,
\* whatever sequence of introspection queries is served.
C14_LoadedAtMostOnce == loads <= 1

\* the callers whose query is suspended on a load it started itself
LoadsInFlight == {p \in Callers : qpc[p] # Idle /\ qpc[p].load}

\* C16: single-flight load. Callers that query at the same time while the
\* document is not loaded share one load: no two loads are in flight together.
C16_SingleFlightLoad == Cardinality(LoadsInFlight) <= 1


-----------------------------------------------------------------------------
(* The catalog next to the resource calls *)

\* one caller is enough here: it alternates introspection queries and
\* resource calls through request() / makeRequest() / makeApiCall()
Sequential == {CHOOSE p \in Callers : TRUE}

NextCatalogLife ==
  \/ \E p \in Sequential : \E a \in LoadQueryArgs : NinjaOneFetchDocument(p, a)
  \/ \E p \in Sequential : \E d \in Loadable : NinjaOneFetchResponse(p, d)
  \/ \E p \in Sequential : \E a \in LoadQueryArgs : HaloPSAImportDocument(p, a)
  \/ \E p \in Sequential : HaloPSAImported(p)
  \/ \E d \in Loadable : ConnectWiseLoadSchema(d)
  \/ \E a \in LoadQueryArgs : started /\ ConnectWiseEndpointDetails(a)
  \/ \E p \in Sequential : started /\ StartOperation(p)
                           /\ UNCHANGED <<vendor, regionVars, catalogVars, processVars>>
  \/ \E p \in Sequential : \E r \in TokenResponses(p) :
       TokenResponse(p, r) /\ UNCHANGED <<vendor, regionVars, catalogVars, processVars>>
  \/ \E p \in Sequential : \E r \in ResourceResponses :
       ResourceResponse(p, r) /\ UNCHANGED <<vendor, regionVars, catalogVars, processVars>>

SpecCatalogLife == InitLoad /\ [][NextCatalogLife]_vars

\* C15: the catalog goes from unloaded to loaded and never back; once a load
\* has failed no introspection query of the process succeeds any more; and a
\* caller can still start a resource call, which ends by what the token and
\* resource endpoints answer.
C15_CatalogStateMachine ==
  /\ [][doc # Null => doc' = doc]_vars
  /\ [](loadFailed => result.kind # "ok")
  /\ [](loadFailed => \A p \in Callers : pc[p] = "idle" => ENABLED StartOperation(p))


-----------------------------------------------------------------------------
(* What request() / makeApiCall() / makeRequest() make of the response *)

Statuses == {200, 204, 404, 500}

\* response.headers.get('content-type'); Null when the header is absent
Header(value) == [tag |-> "header", value |-> value]
ContentTypes == {Header("application/json"), Header("text/html"), Null}

HttpResponses ==
  { [kind |-> "http", status |-> st, contentType |-> ct, body |-> b] :
      st \in Statuses, ct \in ContentTypes, b \in {"json", "empty", "text"} }

\* response.ok
Ok(resp) == resp.status \in 200..299

\* contentType && contentType.includes('application/json')
IsJsonType(resp) == resp.contentType = Header("application/json")

\* the part of request() after the fetch: what the caller gets for a response;
\* all three clients put response.status into the message of the API error
HandleResponse(v, resp) ==
  IF resp.kind = "network_error" THEN [kind |-> "error", outcome |-> "transport_error"]
  ELSE
    LET outcome == ResourceOutcome(v, [kind |-> "http", ok |-> Ok(resp),
                                       jsonType |-> IsJsonType(resp), body |-> resp.body])
    IN CASE outcome = "api_error" ->
              [kind |-> "error", outcome |-> outcome, status |-> resp.status]
         [] outcome = "parse_error" -> [kind |-> "error", outcome |-> outcome]
         [] OTHER -> [kind |-> "ok", outcome |-> outcome]

ResourceRequest(resp) ==
  /\ call' = [op |-> "request", response |-> resp]
  /\ result' = HandleResponse(vendor, resp)
  /\ UNCHANGED <<vendor, authVars, regionVars, processVars, doc, schemaCache>>

NextResponse == \E resp \in HttpResponses \cup {[kind |-> "network_error"]} : ResourceRequest(resp)

SpecResponse == Init /\ [][NextResponse]_vars

\* C20: a response that is not 2xx ends in an API error that carries the
\* status; a 2xx response gives the parsed JSON when the content type says
\* JSON (and the body is JSON) and the raw text otherwise, so that a 2xx
\* response whose content type is not JSON never ends in an error.
C20_ResponseHandling ==
  (call.op = "request" /\ call.response.kind = "http") =>
    LET resp == call.response
    IN /\ ~Ok(resp) =>
            /\ result.kind = "error"
            /\ result.outcome = "api_error"
            /\ result.status = resp.status
       /\ (Ok(resp) /\ IsJsonType(resp) /\ resp.body = "json") =>
            (result.kind = "ok" /\ result.outcome = "json")
       /\ (Ok(resp) /\ ~IsJsonType(resp)) =>
            (result.kind = "ok" /\ result.outcome = "text")


-----------------------------------------------------------------------------
(* The server process: startup, the CallTool handler and its envelope *)

\* one resource tool with a required argument per server, and a name no
\* server knows
ResourceTool(v) ==
  CASE v = "ninjaone" -> "ninjaone_get_organization"
    [] v = "connectwise" -> "connectwise_get_company"
    [] v = "halopsa" -> "halopsa_api_call"

ToolNames(v) == {ResourceTool(v), "no_such_tool"}

\* the required argument (id, companyId, path): absent or as the schema says
RequiredArgs(v) ==
  IF v = "halopsa" THEN {Undefined, Text(<<"/","T","i","c","k","e","t","s">>)} ELSE {Undefined, Num(7)}

\* `${value}` in a template literal
TemplateString(x) ==
  CASE x = Undefined -> <<"u","n","d","e","f","i","n","e","d">>
    [] x.tag = "num" -> Digits(x.n)
    [] x.tag = "str" -> x.chars

\* the path the resource request of the tool is built with
RequestPath(v, arg) ==
  CASE v = "ninjaone" -> <<"/","v","2","/","o","r","g","a","n","i","z","a","t","i","o","n","/">> \o TemplateString(arg)
    [] v = "connectwise" -> <<"/","a","p","i","/","p","l","a","t","f","o","r","m","/","v","1","/","c","o","m","p","a","n","y","/","c","o","m","p","a","n","i","e","s","/">> \o TemplateString(arg)
    [] v = "halopsa" -> TemplateString(arg)

ReportPath == <<"/","a","p","i","/","R","e","p","o","r","t">>

\* what the handler returns: content text and, except in NinjaOne, isError
Success(v, outcome) ==
  [kind |-> "envelope", error |-> FALSE, isError |-> FALSE, text |-> outcome]
ErrorEnvelope(v, message) ==
  [kind |-> "envelope", error |-> TRUE, isError |-> (v # "ninjaone"), text |-> message]
\* what the handler leaves behind when it throws
Thrown(message) == [kind |-> "thrown", message |-> message]
Pending == [kind |-> "pending"]

ToolCall(name, arg) == [op |-> "tool", name |-> name, arg |-> arg]

\* request() / makeRequest() / makeApiCall() up to the first suspension, with
\* the path of the resource request once it is on the network
Request(p, path) ==
  /\ StartOperation(p)
  /\ sent' = IF pc'[p] = "resource" THEN sent \cup {path} ELSE sent

\* NinjaOne main(): connects without a look at the environment
NinjaOneStartup ==
  /\ vendor = "ninjaone"
  /\ ~started /\ ~exited
  /\ started' = TRUE
  /\ UNCHANGED <<vendor, authVars, regionVars, catalogVars, loads, qpc, loadFailed, serverVars>>

\* ConnectWise index: env validation, then new ConnectWiseRMMClient, then connect
ConnectWiseStartup(d) ==
  /\ vendor = "connectwise"
  /\ ~started /\ ~exited
  /\ IF config = "missing"
     THEN /\ exited' = TRUE
          /\ UNCHANGED <<vendor, authVars, regionVars, catalogVars, loads, qpc, started,
                         loadFailed, config, pages, sent>>
     ELSE ConnectWiseLoadSchema(d)

\* HaloPSA index: config validation, then testConnection(), whose outcome is
\* logged and dropped, then connect. r is what the token endpoint answers.
HaloPSAStartup(p, r) ==
  /\ vendor = "halopsa"
  /\ ~started /\ ~exited
  /\ IF config = "missing"
     THEN /\ exited' = TRUE
          /\ UNCHANGED <<vendor, authVars, regionVars, catalogVars, loads, qpc, started,
                         loadFailed, config, pages, sent>>
     ELSE /\ started' = TRUE
          /\ IF r.kind = "ok"
             THEN /\ accessToken' = r.access_token
                  /\ tokenExpiry' = ExpiryOf(vendor, now, r.expires_in)
                  /\ issued' = [at |-> now, access_token |-> r.access_token, expires_in |-> r.expires_in]
                  /\ sent' = sent \cup {ReportPath}
             ELSE UNCHANGED <<accessToken, tokenExpiry, issued, sent>>
          /\ UNCHANGED <<vendor, now, pc, tokenReqs, resReqs, reply, regionVars,
                         catalogVars, loads, qpc, loadFailed, config, pages, exited>>

\* NinjaOne handler: initializeClient() on the first call, outside the try;
\* then the switch inside the try
NinjaOneCallTool(p, name, arg) ==
  /\ vendor = "ninjaone"
  /\ started /\ ~exited
  /\ pc[p] = "idle"
  /\ call' = ToolCall(name, arg)
  /\ IF baseUrl = Undefined /\ config = "missing"
     THEN /\ result' = Thrown("NINJAONE_CLIENT_ID and NINJAONE_CLIENT_SECRET environment variables are required")
          /\ UNCHANGED <<authVars, baseUrl, sent>>
     ELSE /\ baseUrl' = IF baseUrl = Undefined
                        THEN GetRegionUrl(RegionOfEnv(regionEnv)) ELSE baseUrl
          /\ IF name = ResourceTool(vendor)
             THEN /\ Request(p, RequestPath(vendor, arg))
                  /\ result' = Pending
             ELSE /\ result' = ErrorEnvelope(vendor, "Unknown tool")
                  /\ UNCHANGED <<authVars, sent>>
  /\ UNCHANGED <<vendor, regionEnv, doc, schemaCache, loads, qpc, started, loadFailed,
                 config, pages, exited>>

\* ConnectWise handler: case 'connectwise_get_company' and default
ConnectWiseCallTool(p, name, arg) ==
  /\ vendor = "connectwise"
  /\ started /\ ~exited
  /\ pc[p] = "idle"
  /\ call' = ToolCall(name, arg)
  /\ IF name = ResourceTool(vendor)
     THEN /\ Request(p, RequestPath(vendor, arg))
          /\ result' = Pending
     ELSE /\ result' = ErrorEnvelope(vendor, "Unknown tool")
          /\ UNCHANGED <<authVars, sent>>
  /\ UNCHANGED <<vendor, regionVars, doc, schemaCache, loads, qpc, started, loadFailed,
                 config, pages, exited>>

\* HaloPSA handler: case 'halopsa_api_call' (if (!path) throw) and default
HaloPSACallTool(p, name, arg) ==
  /\ vendor = "halopsa"
  /\ started /\ ~exited
  /\ pc[p] = "idle"
  /\ call' = ToolCall(name, arg)
  /\ IF name # ResourceTool(vendor)
     THEN /\ result' = ErrorEnvelope(vendor, "Unknown tool")
          /\ UNCHANGED <<authVars, sent>>
     ELSE IF ~StrTruthy(arg)
     THEN /\ result' = ErrorEnvelope(vendor, "API path is required")
          /\ UNCHANGED <<authVars, sent>>
     ELSE /\ Request(p, RequestPath(vendor, arg))
          /\ result' = Pending
  /\ UNCHANGED <<vendor, regionVars, doc, schemaCache, loads, qpc, started, loadFailed,
                 config, pages, exited>>

\* authenticate() of the tool's request resumes: on failure the catch of the
\* handler turns the error into an envelope
ToolTokenResponse(p, r) ==
  /\ result = Pending
  /\ TokenResponse(p, r)
  /\ sent' = IF r.kind = "ok" THEN sent \cup {RequestPath(vendor, call.arg)} ELSE sent
  /\ result' = IF r.kind = "ok" THEN result
               ELSE ErrorEnvelope(vendor, "Failed to authenticate")
  /\ UNCHANGED <<vendor, regionVars, doc, schemaCache, call, loads, qpc, started,
                 loadFailed, config, pages, exited>>

\* the resource endpoint answers and the handler returns
ToolResourceResponse(p, r) ==
  /\ result = Pending
  /\ ResourceResponse(p, r)
  /\ result' = LET outcome == ResourceOutcome(vendor, r)
               IN IF outcome \in {"json", "text", "null"}
                  THEN Success(vendor, outcome) ELSE ErrorEnvelope(vendor, outcome)
  /\ UNCHANGED <<vendor, regionVars, doc, schemaCache, call, loads, qpc, started,
                 loadFailed, serverVars>>

InitServer ==
  /\ vendor \in Vendors
  /\ InitAuth
  /\ RegionAtRest
  /\ doc = Null
  /\ schemaCache = <<>>
  /\ call = NoCall
  /\ result = NoResult
  /\ loads = 0
  /\ qpc = [p \in Callers |-> Idle]
  /\ started = FALSE
  /\ loadFailed = FALSE
  /\ config \in {"present", "missing"}
  /\ exited = FALSE
  /\ sent = {}
  /\ pages = <<>>

NextServer ==
  \/ NinjaOneStartup
  \/ \E d \in Loadable : ConnectWiseStartup(d)
  \/ \E p \in Sequential : \E r \in TokenResponses(p) : HaloPSAStartup(p, r)
  \/ \E p \in Sequential : \E name \in ToolNames(vendor) : \E arg \in RequiredArgs(vendor) :
       NinjaOneCallTool(p, name, arg)
  \/ \E p \in Sequential : \E name \in ToolNames(vendor) : \E arg \in RequiredArgs(vendor) :
       ConnectWiseCallTool(p, name, arg)
  \/ \E p \in Sequential : \E name \in ToolNames(vendor) : \E arg \in RequiredArgs(vendor) :
       HaloPSACallTool(p, name, arg)
  \/ \E p \in Sequential : \E r \in TokenResponses(p) : ToolTokenResponse(p, r)
  \/ \E p \in Sequential : \E r \in ResourceResponses : ToolResourceResponse(p, r)

SpecServer == InitServer /\ [][NextServer]_vars


\* the servers with their credentials in place
InitTools == InitServer /\ config = "present"

SpecTools == InitTools /\ [][NextServer]_vars

\* a call of the resource tool that lacks its required argument
MissingArgument ==
  /\ call.op = "tool"
  /\ call.name = ResourceTool(vendor)
  /\ call.arg = Undefined

\* C17: a tool called without its required argument ends in an error
\* envelope: no success payload comes back, no resource request built from
\* the missing value goes out, and the handler does not throw.
C17_MissingArgumentRejected ==
  /\ RequestPath(vendor, Undefined) \notin sent
  /\ MissingArgument =>
       /\ result.kind \in {"pending", "envelope"}
       /\ result.kind = "envelope" => result.error

\* C18: every tool call, whatever its name and whatever fails, ends in an
\* envelope with the payload or an error text; the handler never throws and
\* the process that serves calls is never gone.
C18_DispatchBoundary ==
  /\ call.op = "tool" => result.kind \in {"pending", "envelope"}
  /\ started => ~exited

\* C19: a process without its required configuration aborts during startup:
\* it never connects and never handles a tool call.
C19_ConfigurationFatal ==
  config = "missing" => (~started /\ call = NoCall)


-----------------------------------------------------------------------------
(* Query parameters of the generic API call tools *)

MaxParams == 2

ParamKeys == {<<"k">>, <<"m">>}
ParamValues == {Text(<<"1">>), Null, Undefined}
Entry(key, value) == [key |-> key, value |-> value]

\* Object.entries(queryParams): up to MaxParams entries with distinct keys
RECURSIVE EntriesUpTo(_)
EntriesUpTo(n) ==
  IF n = 0 THEN {<<>>}
  ELSE LET shorter == EntriesUpTo(n - 1)
       IN shorter \cup
          { Append(es, Entry(k, val)) :
              es \in {e \in shorter : Len(e) = n - 1}, k \in ParamKeys, val \in ParamValues }

DistinctKeys(es) == \A i, j \in 1..Len(es) : es[i].key = es[j].key => i = j

\* the queryParams argument: absent, or an object
QueryParamsArgs ==
  {Undefined} \cup {Arr(es) : es \in {e \in EntriesUpTo(MaxParams) : DistinctKeys(e)}}

\* the path argument: without and with a query string of its own
ApiPaths == {<<"/","a">>, <<"/","a","?","x","=","1">>}

\* URLSearchParams.toString() for keys and values that need no escaping
RECURSIVE ParamString(_)
ParamString(pairs) ==
  IF pairs = <<>> THEN <<>>
  ELSE LET first == pairs[1].key \o <<"=">> \o pairs[1].value.chars
       IN IF Len(pairs) = 1 THEN first
          ELSE first \o <<"&">> \o ParamString(Tail(pairs))

\* value !== undefined && value !== null
Appended(e) == e.value # Undefined /\ e.value # Null

TenantEntry == Entry(<<"t","e","n","a","n","t">>, Text(<<"T">>))

\* the URL, relative to the base URL, that makeApiCall / makeRequest builds
BuildUrl(v, path, queryParams) ==
  LET has == queryParams # Undefined
      entries == IF has THEN queryParams.items ELSE <<>>
      Separator == IF Includes(path, <<"?">>) THEN <<"&">> ELSE <<"?">>
  IN CASE v = "ninjaone" ->
            \* queryParams && Object.keys(queryParams).length > 0
            IF has /\ Len(entries) > 0
            THEN LET paramString == ParamString(SelectSeq(entries, Appended))
                 IN IF paramString # <<>> THEN path \o Separator \o paramString ELSE path
            ELSE path
       [] v = "connectwise" ->
            IF has /\ Len(entries) > 0
            THEN path \o <<"?">> \o ParamString(SelectSeq(entries, Appended))
            ELSE path
       [] v = "halopsa" ->
            \* new URLSearchParams({ tenant: this.config.tenant }), then the entries
            LET paramString == ParamString(<<TenantEntry>> \o SelectSeq(entries, Appended))
            IN IF paramString # <<>> THEN path \o Separator \o paramString ELSE path

MakeApiCallUrl(path, queryParams) ==
  /\ call' = [op |-> "url", path |-> path, queryParams |-> queryParams]
  /\ result' = [kind |-> "ok", url |-> BuildUrl(vendor, path, queryParams)]
  /\ UNCHANGED <<vendor, authVars, regionVars, processVars, doc, schemaCache>>

NextUrl == \E path \in ApiPaths : \E q \in QueryParamsArgs : MakeApiCallUrl(path, q)

SpecUrl == Init /\ [][NextUrl]_vars

\* the entries that must show in the URL; HaloPSA's client sends its tenant
\* as the first parameter of every call
SurvivingEntries ==
  (IF vendor = "halopsa" THEN <<TenantEntry>> ELSE <<>>)
  \o (IF call.queryParams = Undefined THEN <<>>
      ELSE SelectSeq(call.queryParams.items, Appended))

\* C21: the URL carries one key=value pair for each entry that is neither
\* null nor undefined and none for the others; the pairs come after '&' when
\* the path has a query string, after '?' otherwise, and nothing is appended
\* when no entry survives.
C21_QueryParamSerialisation ==
  call.op = "url" =>
    result.url =
      IF SurvivingEntries = <<>> THEN call.path
      ELSE call.path
           \o (IF Includes(call.path, <<"?">>) THEN <<"&">> ELSE <<"?">>)
           \o ParamString(SurvivingEntries)


-----------------------------------------------------------------------------
(* Properties of the detail levels of the endpoint-details tool *)

SummaryOnlyArg == call.args.summaryOnly # Undefined /\ call.args.summaryOnly.b
IncludeSchemasArg == call.args.includeSchemas = Undefined \/ call.args.includeSchemas.b

SchemaFields == {"parameters", "requestBody", "responses"}

\* the path of the document an entry of the result was made from
SourcePath(path) ==
  doc.paths[CHOOSE i \in 1..Len(doc.paths) : doc.paths[i].path = path]

\* the operations of a result, each with the operation of the document it
\* was made from
ReturnedOperations ==
  IF "endpoints" \in DOMAIN result
  THEN { <<result.endpoints[k],
           LET ops == SourcePath(result.endpoints[k].path).ops
           IN ops[CHOOSE j \in 1..Len(ops) :
                    ToUpperCase(ops[j].method) = result.endpoints[k].method]>> :
           k \in 1..Len(result.endpoints) }
  ELSE UNION { { <<result.matchingPaths[k].operations[j],
                   SourcePath(result.matchingPaths[k].path).ops[j]>> :
                   j \in 1..Len(result.matchingPaths[k].operations) } :
               k \in 1..Len(result.matchingPaths) }

\* C22: with summaryOnly every returned path carries its methods and summary
\* and nothing else; without summaryOnly and with includeSchemas = false no
\* returned operation carries parameters, requestBody or responses; with
\* includeSchemas (the default) an operation carries each of the three that
\* the document gives it.
C22_DetailLevels ==
  DetailsDone =>
    IF SummaryOnlyArg
    THEN \A k \in 1..Len(ReturnedEntries) :
           DOMAIN ReturnedEntries[k] = {"path", "methods", "summary"}
    ELSE \A ro \in ReturnedOperations :
           IF IncludeSchemasArg
           THEN \A f \in SchemaFields : ro[2][f] # Undefined => f \in DOMAIN ro[1]
           ELSE DOMAIN ro[1] \cap SchemaFields = {}

\* C23: component schemas are attached to a details result only when the
\* result has entries, schemas were requested and summaryOnly is off; the
\* attached set never holds more than 20 schemas.
C23_ComponentAttachment ==
  (DetailsDone /\ "components" \in DOMAIN result) =>
    /\ Len(ReturnedEntries) > 0
    /\ IncludeSchemasArg
    /\ ~SummaryOnlyArg
    /\ Len(result.components) <= 20

\* components attached from a document with more than 20 schemas
C23_Witness ==
  /\ DetailsDone
  /\ "components" \in DOMAIN result
  /\ Len(doc.schemas) > 20
  /\ Len(result.components) = 20


-----------------------------------------------------------------------------
(* The name list of getApiSchemas *)

Range(s) == {s[k] : k \in 1..Len(s)}

\* C24: the result of listSchemas holds the list of all matching names
\* exactly when listNames is requested or at most 20 names match; otherwise
\* it holds the number of matches and a hint instead; never both, never none.
C24_NameListing ==
  SchemasDone =>
    LET wanted == \/ (call.args.listNames # Undefined /\ call.args.listNames.b)
                  \/ Len(MatchingNames) <= 20
    IN /\ ("schemaNames" \in DOMAIN result) <=> wanted
       /\ ("hint" \in DOMAIN result) <=> ~wanted
       /\ wanted => /\ Len(result.schemaNames) = Len(MatchingNames)
                    /\ Range(result.schemaNames) = Range(MatchingNames)
       /\ ~wanted => /\ result.hint.match = Len(MatchingNames)
                     /\ result.matchingCount = Len(MatchingNames)

\* more than 20 names match and no list was asked for: the hint is returned
C24_Witness ==
  /\ SchemasDone
  /\ Len(MatchingNames) > 20
  /\ call.args.listNames = Undefined
  /\ "hint" \in DOMAIN result


-----------------------------------------------------------------------------
(* The schema overview of the three clients *)

NumHugePaths == 101

\* A document with more paths than the overview lists: /dev/1 .. /dev/NumHugePaths
HugePaths ==
  [i \in 1..NumHugePaths |->
     [path |-> <<"/","d","e","v","/">> \o Digits(i),
      ops |-> <<Op(<<"g","e","t">>, Undefined,
                   Text(<<"D","e","v","i","c","e"," ">> \o Digits(i)), Undefined, Undefined)>>]]

\* the paths of the small document at the positions S, in document order
SubPaths(S) ==
  LET Kept(pe) == \E i \in S : SmallPaths[i] = pe
  IN SelectSeq(SmallPaths, Kept)

\* The documents an overview is asked of: every selection of paths of the
\* small document, and documents of 99 paths and more
OverviewDocs ==
  { [paths |-> SubPaths(S), schemas |-> SmallSchemas] : S \in SUBSET (1..Len(SmallPaths)) }
  \cup { [paths |-> SubSeq(HugePaths, 1, n), schemas |-> SmallSchemas] :
           n \in (NumHugePaths - 2)..NumHugePaths }

\* pathGroups[category].push(path), for every path in document order
PathGroups(v, paths) ==
  LET category == SubSeq([i \in 1..Len(paths) |-> CategorizeApiPath(v, paths[i].path)],
                         1, Len(paths))
      InGroup(c) == LET Is(i) == category[i] = c
                    IN SelectSeq([i \in 1..Len(paths) |-> i], Is)
  IN [c \in {category[i] : i \in 1..Len(paths)} |->
        [k \in 1..Len(InGroup(c)) |-> paths[InGroup(c)[k]].path]]

\* allPaths.slice(0, 100)
AllPathsSlice(entries) == SubSeq(entries, 1, Min(100, Len(entries)))

\* getApiSchemaOverview of NinjaOneClient and HaloPSAClient
GetApiSchemaOverview(v, d) ==
  LET allPaths == [i \in 1..Len(d.paths) |-> SummaryEntry(d.paths[i])]
  IN [kind |-> "ok",
      info |-> Obj("info"),
      servers |-> Obj("servers"),
      totalPaths |-> Len(allPaths),
      pathGroups |-> PathGroups(v, d.paths),
      allPaths |-> AllPathsSlice(allPaths)]

\* NinjaOne fetches the API description on every call; d is Null when the
\* fetch fails
NinjaOneOverview(d) ==
  IF d = Null THEN Failure("Failed to fetch NinjaOne API schema overview")
  ELSE GetApiSchemaOverview("ninjaone", d)

\* the (path, method) pairs of the document in document order
OperationPairs(paths) ==
  LET real == UNION {{<<i, j>> : j \in 1..Len(paths[i].ops)} : i \in 1..Len(paths)}
      Before(a, b) == a[1] < b[1] \/ (a[1] = b[1] /\ a[2] < b[2])
  IN [k \in 1..Cardinality(real) |->
        CHOOSE pr \in real : Cardinality({q \in real : Before(q, pr)}) = k - 1]

\* op.tags && Array.isArray(op.tags)
TagsOf(o) == IF o.tags = Undefined THEN <<>> ELSE o.tags.items

\* `${method.toUpperCase()} ${path}`
OperationLabel(pe, o) == ToUpperCase(o.method) \o <<" ">> \o pe.path

\* pathsByCategory[tag].push(...) for every tag of every operation
PathsByCategory(paths) ==
  LET operations == OperationPairs(paths)
      Tagged(t, k) == \E n \in 1..Len(TagsOf(paths[operations[k][1]].ops[operations[k][2]])) :
                        TagsOf(paths[operations[k][1]].ops[operations[k][2]])[n] = t
      allTags == UNION {Range(TagsOf(paths[operations[k][1]].ops[operations[k][2]])) :
                          k \in 1..Len(operations)}
      InGroup(t) == LET Is(k) == Tagged(t, k) IN SelectSeq([k \in 1..Len(operations) |-> k], Is)
  IN [t \in allTags |->
        [n \in 1..Len(InGroup(t)) |->
           OperationLabel(paths[operations[InGroup(t)[n]][1]],
                          paths[operations[InGroup(t)[n]][1]].ops[operations[InGroup(t)[n]][2]])]]

\* a sequence that holds each element of the set once
RECURSIVE SeqOf(_)
SeqOf(S) == IF S = {} THEN <<>> ELSE LET x == CHOOSE x \in S : TRUE IN <<x>> \o SeqOf(S \ {x})

\* getSchemaOverview of ConnectWiseRMMClient
GetSchemaOverview(d) ==
  IF d = Null THEN Failure("Schema not loaded")
  ELSE LET groups == PathsByCategory(d.paths)
       IN [kind |-> "ok",
           totalEndpoints |-> Len(d.paths),
           categories |-> Sort(SeqOf(DOMAIN groups)),
           pathsByCategory |-> groups,
           servers |-> Obj("servers")]

OverviewCall == [op |-> "overview", args |-> [none |-> Undefined]]

\* case 'ninjaone_get_api_schema_overview'
NinjaOneSchemaOverview ==
  /\ vendor = "ninjaone"
  /\ call' = OverviewCall
  /\ result' = NinjaOneOverview(doc)
  /\ UNCHANGED <<vendor, authVars, regionVars, processVars, doc, schemaCache>>

\* HaloPSAClient.getApiSchemaOverview()
HaloPSASchemaOverview ==
  /\ vendor = "halopsa"
  /\ call' = OverviewCall
  /\ result' = GetApiSchemaOverview("halopsa", doc)
  /\ UNCHANGED <<vendor, authVars, regionVars, processVars, doc, schemaCache>>

\* case 'connectwise_get_schema_overview'
ConnectWiseSchemaOverview ==
  /\ vendor = "connectwise"
  /\ call' = OverviewCall
  /\ result' = GetSchemaOverview(doc)
  /\ UNCHANGED <<vendor, authVars, regionVars, processVars, doc, schemaCache>>

InitOverview ==
  /\ vendor \in Vendors
  /\ InitAuth
  /\ ProcessAtRest
  /\ RegionAtRest
  /\ doc \in IF vendor = "halopsa" THEN OverviewDocs ELSE OverviewDocs \cup {Null}
  /\ schemaCache = <<>>
  /\ call = NoCall
  /\ result = NoResult

NextOverview ==
  \/ NinjaOneSchemaOverview
  \/ HaloPSASchemaOverview
  \/ ConnectWiseSchemaOverview

SpecOverview == InitOverview /\ [][NextOverview]_vars

OverviewDone == call.op = "overview" /\ result.kind = "ok"

\* the total the overview reports
OverviewTotal ==
  IF vendor = "connectwise" THEN result.totalEndpoints ELSE result.totalPaths

\* the grouping the overview reports
OverviewGroups ==
  IF vendor = "connectwise" THEN result.pathsByCategory ELSE result.pathGroups

\* the group member g stands for the path p
MemberOf(g, p) ==
  IF vendor = "connectwise"
  THEN \E k \in 1..Len(g) : g[k] = " " /\ SubSeq(g, k + 1, Len(g)) = p
  ELSE g = p

\* the number of members of group c that stand for the path p
TimesIn(c, p) ==
  Cardinality({n \in 1..Len(OverviewGroups[c]) : MemberOf(OverviewGroups[c][n], p)})

RECURSIVE GroupSizes(_)
GroupSizes(cs) ==
  IF cs = {} THEN 0
  ELSE LET c == CHOOSE c \in cs : TRUE
       IN Len(OverviewGroups[c]) + GroupSizes(cs \ {c})

\* C25: the overview reports the number of paths of the whole document, holds
\* every path once in the group of the category categorizeApiPath gives it and
\* in no other group, so that the group sizes add up to the total, and lists
\* the first 100 entries of the document in document order, all of them when
\* the document has fewer (an overview without such a list passes this part).
C25_Overview ==
  OverviewDone =>
    /\ OverviewTotal = Len(doc.paths)
    /\ \A i \in 1..Len(doc.paths) :
         /\ Cardinality({c \in DOMAIN OverviewGroups : TimesIn(c, doc.paths[i].path) > 0}) = 1
         /\ \A c \in DOMAIN OverviewGroups : TimesIn(c, doc.paths[i].path) <= 1
         /\ vendor # "connectwise" =>
              TimesIn(CategorizeApiPath(vendor, doc.paths[i].path), doc.paths[i].path) = 1
    /\ GroupSizes(DOMAIN OverviewGroups) = OverviewTotal
    /\ "allPaths" \in DOMAIN result =>
         /\ Len(result.allPaths) = Min(100, Len(doc.paths))
         /\ \A k \in 1..Len(result.allPaths) : result.allPaths[k] = SummaryEntry(doc.paths[k])


-----------------------------------------------------------------------------
(* Introspection queries next to authenticated operations *)

\* one query of each kind
OneDetailsArgs ==
  { a \in LoadQueryArgs : a.pathPattern = T_device }

OneSearchArgs ==
  { [query |-> T_device, limit |-> Undefined, skip |-> Undefined] }

OneListArgs ==
  { [category |-> Undefined, limit |-> Undefined, skip |-> Undefined] }

OneSchemasArgs ==
  { [schemaPattern |-> Undefined, limit |-> Undefined, skip |-> Undefined,
     listNames |-> Undefined] }

\* The introspection queries of the three servers, and one caller's
\* authenticated operations in between
NextIntrospection ==
  \/ \E a \in OneDetailsArgs : NinjaOneEndpointDetails(a)
  \/ \E a \in OneDetailsArgs : HaloPSAEndpointDetails(a)
  \/ \E a \in OneDetailsArgs : ConnectWiseEndpointDetails(a)
  \/ \E q \in {T_device} : ConnectWiseSearchEndpoints(q)
  \/ \E a \in OneSearchArgs : HaloPSASearchApiEndpoints(a)
  \/ \E a \in OneListArgs : HaloPSAListApiEndpoints(a)
  \/ \E a \in OneSchemasArgs : HaloPSAGetApiSchemas(a)
  \/ NinjaOneSchemaOverview
  \/ HaloPSASchemaOverview
  \/ ConnectWiseSchemaOverview
  \/ \E p \in Sequential : StartOperation(p)
                           /\ UNCHANGED <<vendor, regionVars, catalogVars, processVars>>
  \/ \E p \in Sequential : \E r \in TokenResponses(p) :
       TokenResponse(p, r) /\ UNCHANGED <<vendor, regionVars, catalogVars, processVars>>
  \/ \E p \in Sequential : \E r \in ResourceResponses :
       ResourceResponse(p, r) /\ UNCHANGED <<vendor, regionVars, catalogVars, processVars>>

InitIntrospection ==
  /\ InitCatalog
  /\ doc \in {[paths |-> SmallPaths, schemas |-> SmallSchemas], Null}

SpecIntrospection == InitIntrospection /\ [][NextIntrospection]_vars

IntrospectionOps == {"overview", "details", "search", "list", "schemas"}

\* a step that serves an introspection query
IntrospectionStep ==
  /\ call'.op \in IntrospectionOps
  /\ (call' # call \/ result' # result \/ schemaCache' # schemaCache)

\* C26: a step that serves an introspection query leaves the document, the
\* access token and its expiry as they are, and neither sends a token request
\* nor moves an operation that is waiting for one.
C26_IntrospectionFrame ==
  [][IntrospectionStep =>
       /\ doc' = doc
       /\ accessToken' = accessToken
       /\ tokenExpiry' = tokenExpiry
       /\ tokenReqs' = tokenReqs
       /\ pc' = pc]_vars

\* a query has been answered from the document while a token is cached
C26_Witness ==
  /\ call.op \in IntrospectionOps
  /\ result.kind = "ok"
  /\ doc # Null
  /\ accessToken # Null
  /\ tokenExpiry # Null


-----------------------------------------------------------------------------
(* The result cache of ConnectWise getEndpointDetails *)

MaxKeys == 2

T_undefined == <<"u","n","d","e","f","i","n","e","d">>

\* args.pathPattern as the tool call carries it; the handler passes it on
\* unchecked, also when the caller left it out
PatternArgs == {Text(T_device), Text(<<"z","z">>), Text(T_undefined), Undefined}

CachedArgs ==
  { [pathPattern |-> pt, maxEndpoints |-> m, summaryOnly |-> so,
     includeSchemas |-> Undefined, includeExamples |-> Undefined] :
      pt \in PatternArgs, m \in {Undefined, Num(1)}, so \in {Undefined, Bool(TRUE)} }

\* new RegExp(pathPattern, 'i'): without a pattern it is the empty regular
\* expression, which matches every path
RegExpSource(x) == IF x = Undefined THEN <<>> ELSE x.chars

\* the key the call is cached under
KeyOf(a) == CacheKey(TemplateString(a.pathPattern), HandlerOptions(a))

\* case 'connectwise_get_endpoint_details'. The cache never evicts; the model
\* takes no call that would add a key to a cache of MaxKeys entries.
ConnectWiseGetEndpointDetails(a) ==
  /\ vendor = "connectwise"
  /\ \/ doc = Null
     \/ KeyOf(a) \in DOMAIN schemaCache
     \/ Cardinality(DOMAIN schemaCache) < MaxKeys
  /\ LET r == CachedEndpointDetails(doc, schemaCache, TemplateString(a.pathPattern),
                                    RegExpSource(a.pathPattern), HandlerOptions(a))
     IN /\ call' = [op |-> "cached", args |-> a]
        /\ result' = r.result
        /\ schemaCache' = r.cache
  /\ UNCHANGED <<vendor, authVars, regionVars, processVars, doc>>

InitCache ==
  /\ InitCatalog
  /\ vendor = "connectwise"
  /\ doc \in {[paths |-> SmallPaths, schemas |-> SmallSchemas], Null}

NextCache == \E a \in CachedArgs : ConnectWiseGetEndpointDetails(a)

SpecCache == InitCache /\ [][NextCache]_vars

\* what getEndpointDetails computes for the call a when nothing is cached
Uncached(a) ==
  CachedEndpointDetails(doc, <<>>, TemplateString(a.pathPattern),
                        RegExpSource(a.pathPattern), HandlerOptions(a)).result

\* C27: whatever calls came before, getEndpointDetails returns for a pattern
\* and options what it computes for them from the schema without a cache, and
\* no call with another such result has the cache key of this call.
C27_CacheTransparency ==
  call.op = "cached" =>
    /\ result = Uncached(call.args)
    /\ \A b \in CachedArgs :
         KeyOf(b) = KeyOf(call.args) => Uncached(b) = Uncached(call.args)


-----------------------------------------------------------------------------
(* A token exchange that fails *)

\* caller p's token exchange ends in a failure in this step
ExchangeFails(p) ==
  /\ pc[p] = "token"
  /\ pc'[p] = "idle"

\* C28: the step in which a token exchange fails, by a network error, a
\* non-2xx status or a body that does not parse, leaves the access token and
\* its expiry as they are and ends the operation: its resource request has
\* not been sent and is not sent.
C28_FailedExchangeFrame ==
  [][\A p \in Callers :
       ExchangeFails(p) =>
         /\ accessToken' = accessToken
         /\ tokenExpiry' = tokenExpiry
         /\ reply'.outcome = "auth_error"
         /\ reply'.auth.kind \in {"network_error", "http_error", "bad_json"}
         /\ resReqs[p] = 0
         /\ resReqs'[p] = 0]_vars

\* an exchange has failed while a token of an earlier exchange is cached
C28_Witness ==
  /\ reply.kind = "reply"
  /\ reply.outcome = "auth_error"
  /\ accessToken # Null
  /\ tokenExpiry # Null


-----------------------------------------------------------------------------
(* The cached token and its expiry *)

\* C29: at every suspension point and between operations, the access token
\* and the expiry are both unset, or they are the access_token of one token
\* response and the expiry computed from the expires_in of that response at
\* the instant it arrived, however many refreshes are in flight.
C29_ReplacedWholesale ==
  IF issued = Null
  THEN accessToken = Null /\ tokenExpiry = Null
  ELSE /\ accessToken = issued.access_token
       /\ tokenExpiry = ExpiryOf(vendor, issued.at, issued.expires_in)

\* two refreshes ran at the same time and both have completed, one after
\* the other; both callers wait for their resource
C29_Witness ==
  /\ issued # Null
  /\ \A p \in Callers : pc[p] = "resource" /\ tokenReqs[p] >= 1


-----------------------------------------------------------------------------
(* A client that pages through a query of HaloPSA *)

MaxPageLimit == 3

\* the limits a client pages with: the default of the query, or 1..MaxPageLimit
CoverLimits == {Undefined} \cup {Num(l) : l \in 1..MaxPageLimit}

\* the queries a client pages through, before the first page is asked for
CoverCalls ==
  { [op |-> "search", args |-> [query |-> q, limit |-> l, skip |-> Num(0)]] :
      q \in {<<"t","i","c","k","e","t">>, T_device, <<"l","i","s","t">>, <<"z","z">>},
      l \in CoverLimits }
  \cup
  { [op |-> "list", args |-> [category |-> c, limit |-> l, skip |-> Num(0)]] :
      c \in {Undefined, Text(<<"t","i","c","k","e","t","s">>), Text(<<"O","t","h","e","r">>)},
      l \in CoverLimits }
  \cup
  { [op |-> "schemas",
     args |-> [schemaPattern |-> sp, limit |-> l, skip |-> Num(0), listNames |-> Undefined]] :
      sp \in {Undefined, Text(<<"T","i","c","k","e","t">>), Text(<<"e">>)}, l \in CoverLimits }

\* the handler cases of the three paginated tools
PagedQuery(op, d, a) ==
  CASE op = "search" -> HaloPSASearch(d, a)
    [] op = "list" -> ListApiEndpoints(d, a)
    [] op = "schemas" -> GetApiSchemas(d, a)

\* the page a result carries
PageOf(op, r) ==
  CASE op = "search" -> r.results
    [] op = "list" -> r.endpoints
    [] op = "schemas" -> r.schemas

\* the client asks for the first page: skip = 0
FirstPage ==
  /\ vendor = "halopsa"
  /\ result = NoResult
  /\ result' = PagedQuery(call.op, doc, call.args)
  /\ pages' = PageOf(call.op, result')
  /\ UNCHANGED <<vendor, authVars, regionVars, doc, schemaCache, call,
                 loads, qpc, started, loadFailed, config, exited, sent>>

\* hasMore was true: the client asks for the page at skip + limit
NextPage ==
  /\ vendor = "halopsa"
  /\ result # NoResult
  /\ result.hasMore
  /\ call' = [call EXCEPT !.args.skip = Num(PageSkip + PageLimit)]
  /\ result' = PagedQuery(call.op, doc, call'.args)
  /\ pages' = pages \o PageOf(call.op, result')
  /\ UNCHANGED <<vendor, authVars, regionVars, doc, schemaCache,
                 loads, qpc, started, loadFailed, config, exited, sent>>

InitCoverage ==
  /\ vendor = "halopsa"
  /\ InitAuth
  /\ RegionAtRest
  /\ ProcessAtRest
  /\ doc = [paths |-> SmallPaths, schemas |-> SmallSchemas]
  /\ schemaCache = <<>>
  /\ call \in CoverCalls
  /\ result = NoResult

NextCoverage == FirstPage \/ NextPage

SpecCoverage == InitCoverage /\ [][NextCoverage]_vars

\* the client has stopped: the last result says there is no more
Covered == result # NoResult /\ ~result.hasMore

\* C30: a client that asks for the pages at skip = 0, L, 2L, ... of a search,
\* a listing or a schema query until hasMore is false does stop, and the
\* pages it has then, put one after the other, are the matches of the query
\* without pagination: every one once and in that order. It stops because
\* every further page starts at a greater skip, and no page is asked for at
\* or beyond the number of matches, the one page of an empty result aside.
C30_PageCoverage ==
  /\ [][result # NoResult => call'.args.skip.n > call.args.skip.n]_vars
  /\ [](result # NoResult =>
          /\ PageSkip < (IF Len(Unpaginated) = 0 THEN 1 ELSE Len(Unpaginated))
          /\ result.hasMore => PageSkip + PageLimit < Len(Unpaginated))
  /\ [](Covered => pages = Unpaginated)

\* the client has stopped after more than two pages of a listing
C30_Witness ==
  /\ Covered
  /\ call.op = "list"
  /\ PageLimit = 2
  /\ PageSkip >= 4
  /\ Len(pages) > 4


====
